---- MODULE Spec2Model ----
(***************************************************************************)
(* A model of the dashboard builder's data processor                        *)
(* (src/functions/data-processor/index.ts) and of the upload dialog's CSV  *)
(* parser (src/src/components/dashboard/DataUploadDialog.tsx).              *)
(*                                                                         *)
(* JavaScript values are modelled as records of one shape, so that any two *)
(* values can be compared:                                                 *)
(*   [k |-> kind, n |-> numerator, d |-> denominator, s |-> text]          *)
(* with kind one of "number", "string", "boolean", "null", "undefined".    *)
(* Numbers are exact rationals n/d in lowest terms (the inputs are small   *)
(* integers; only avg divides).  NaN is the number value with kind "nan".  *)
(***************************************************************************)
EXTENDS Integers, Sequences, FiniteSets, TLC

\* op, arg and out are the call being handled, its arguments and its result.
\* storage is the dashboard API's in-memory storage and database the remote
\* database it queries; inflight are the data processor's requests being
\* handled concurrently, and cache is the store of the widget data cache.
\* ui is the state of the React components of the browser.
VARIABLES op, arg, out, storage, database, inflight, cache, ui

\* The state that outlives a call.
server == <<storage, database, inflight, cache, ui>>

vars == <<op, arg, out, storage, database, inflight, cache, ui>>

(***************************************************************************)
(* Bounds of the model.                                                    *)
(***************************************************************************)
MaxRows == 3
MaxPage == 4
MaxPageRows == 5
MaxPageSize == 3
MaxFilters == 2
MaxCsvLines == 3
MaxLimit == 2

(***************************************************************************)
(* JavaScript values.                                                      *)
(***************************************************************************)
Num(n) == [k |-> "number", n |-> n, d |-> 1, s |-> ""]
Str(s) == [k |-> "string", n |-> 0, d |-> 1, s |-> s]
Bool(b) == [k |-> "boolean", n |-> IF b THEN 1 ELSE 0, d |-> 1, s |-> ""]
Null == [k |-> "null", n |-> 0, d |-> 1, s |-> ""]
Undefined == [k |-> "undefined", n |-> 0, d |-> 1, s |-> ""]
NaN == [k |-> "nan", n |-> 0, d |-> 1, s |-> ""]

RECURSIVE Gcd(_, _)
Gcd(a, b) == IF b = 0 THEN a ELSE Gcd(b, a % b)

Abs(n) == IF n < 0 THEN -n ELSE n

\* The number n/d (d > 0) in lowest terms.
Ratio(n, d) ==
  LET g == Gcd(Abs(n), d)
  IN  [k |-> "number", n |-> n \div g, d |-> d \div g, s |-> ""]

IsNaN(x) == x.k = "nan"

\* x < y on two numbers; false when either is NaN.
NumLess(x, y) == ~IsNaN(x) /\ ~IsNaN(y) /\ x.n * y.d < y.n * x.d
NumLessEq(x, y) == ~IsNaN(x) /\ ~IsNaN(y) /\ x.n * y.d <= y.n * x.d
NumAdd(x, y) == Ratio(x.n * y.d + y.n * x.d, x.d * y.d)

(***************************************************************************)
(* Text.  A string is a TLA+ string; a character is a string of length 1.  *)
(***************************************************************************)
CharAt(s, i) == SubSeq(s, i, i)

Digits == "0123456789"
\* The characters of the model in code-unit order.
CodeUnits == "\t\n\r \",-.0123456789:ABCDEFGHIJKLMNOPQRSTUVWXYZ_abcdefghijklmnopqrstuvwxyz"
Upper == "ABCDEFGHIJKLMNOPQRSTUVWXYZ"
Lower == "abcdefghijklmnopqrstuvwxyz"

IndexIn(c, alphabet) ==
  IF \E i \in 1..Len(alphabet) : CharAt(alphabet, i) = c
  THEN CHOOSE i \in 1..Len(alphabet) : CharAt(alphabet, i) = c
  ELSE 0

IsDigit(c) == IndexIn(c, Digits) > 0
IsSpace(c) == c \in {" ", "\t", "\n", "\r"}
CharCode(c) == IndexIn(c, CodeUnits)

\* String.prototype.trim
RECURSIVE TrimLeft(_)
TrimLeft(s) ==
  IF Len(s) > 0 /\ IsSpace(CharAt(s, 1)) THEN TrimLeft(SubSeq(s, 2, Len(s))) ELSE s
RECURSIVE TrimRight(_)
TrimRight(s) ==
  IF Len(s) > 0 /\ IsSpace(CharAt(s, Len(s)))
  THEN TrimRight(SubSeq(s, 1, Len(s) - 1)) ELSE s
Trim(s) == TrimRight(TrimLeft(s))

\* String.prototype.toLowerCase
RECURSIVE ToLowerCase(_)
ToLowerCase(s) ==
  IF Len(s) = 0 THEN ""
  ELSE LET c == CharAt(s, 1)
           i == IndexIn(c, Upper)
       IN  (IF i > 0 THEN CharAt(Lower, i) ELSE c) \o ToLowerCase(SubSeq(s, 2, Len(s)))

\* String.prototype.includes
Includes(s, t) ==
  \E i \in 1..(Len(s) + 1) : i + Len(t) - 1 <= Len(s) /\ SubSeq(s, i, i + Len(t) - 1) = t

\* s < t on two strings: by code units, a proper prefix first.
RECURSIVE StrLess(_, _)
StrLess(s, t) ==
  IF Len(t) = 0 THEN FALSE
  ELSE IF Len(s) = 0 THEN TRUE
  ELSE IF CharAt(s, 1) = CharAt(t, 1)
       THEN StrLess(SubSeq(s, 2, Len(s)), SubSeq(t, 2, Len(t)))
       ELSE CharCode(CharAt(s, 1)) < CharCode(CharAt(t, 1))

AllDigits(s) == Len(s) > 0 /\ \A i \in 1..Len(s) : IsDigit(CharAt(s, i))

RECURSIVE ParseDigits(_)
ParseDigits(s) ==
  IF Len(s) = 0 THEN 0
  ELSE 10 * ParseDigits(SubSeq(s, 1, Len(s) - 1)) + (IndexIn(CharAt(s, Len(s)), Digits) - 1)

RECURSIVE DigitString(_)
DigitString(n) ==
  IF n < 10 THEN CharAt(Digits, n + 1)
  ELSE DigitString(n \div 10) \o CharAt(Digits, (n % 10) + 1)

\* A decimal literal digits.digits, as Number() reads it.
IsDecimal(s) ==
  \E i \in 2..(Len(s) - 1) :
    /\ CharAt(s, i) = "."
    /\ AllDigits(SubSeq(s, 1, i - 1))
    /\ AllDigits(SubSeq(s, i + 1, Len(s)))

RECURSIVE Pow10(_)
Pow10(e) == IF e = 0 THEN 1 ELSE 10 * Pow10(e - 1)

DecimalValue(s) ==
  LET i == CHOOSE j \in 2..(Len(s) - 1) : CharAt(s, j) = "."
      frac == SubSeq(s, i + 1, Len(s))
  IN  Ratio(ParseDigits(SubSeq(s, 1, i - 1)) * Pow10(Len(frac)) + ParseDigits(frac),
            Pow10(Len(frac)))

\* Number(string): the text trimmed; "" is 0; an unsigned decimal literal is
\* its value; any other text of the model is NaN.
StringToNumber(s) ==
  LET t == Trim(s)
  IN  IF t = "" THEN Num(0)
      ELSE IF AllDigits(t) THEN Num(ParseDigits(t))
      ELSE IF IsDecimal(t) THEN DecimalValue(t)
      ELSE NaN

\* Number(value)
ToNumber(v) ==
  CASE v.k = "number" -> v
    [] v.k = "string" -> StringToNumber(v.s)
    [] v.k = "boolean" -> Num(v.n)
    [] v.k = "null" -> Num(0)
    [] OTHER -> NaN

\* String(value), for the integers the model holds.
StringOf(v) ==
  CASE v.k = "number" ->
         IF v.d = 1
         THEN (IF v.n < 0 THEN "-" \o DigitString(-v.n) ELSE DigitString(v.n))
         ELSE DigitString(v.n) \o "/" \o DigitString(v.d)
    [] v.k = "string" -> v.s
    [] v.k = "boolean" -> IF v.n = 1 THEN "true" ELSE "false"
    [] v.k = "null" -> "null"
    [] v.k = "nan" -> "NaN"
    [] OTHER -> "undefined"

InSeq(x, seq) == \E i \in 1..Len(seq) : seq[i] = x

\* row[column]: undefined for a key the row does not have.
Get(row, column) == IF column \in DOMAIN row THEN row[column] ELSE Undefined

(***************************************************************************)
(* applyFilters                                                            *)
(***************************************************************************)
\* One filter's predicate on one row: the switch on filter.operator.
FilterMatches(row, filter) ==
  LET cellValue == Get(row, filter.column)
      value == filter.value
  IN  CASE filter.operator = "equals" -> cellValue = value
        [] filter.operator = "not_equals" -> cellValue # value
        [] filter.operator = "contains" ->
             Includes(ToLowerCase(StringOf(cellValue)), ToLowerCase(StringOf(value)))
        [] filter.operator = "greater_than" -> NumLess(ToNumber(value), ToNumber(cellValue))
        [] filter.operator = "less_than" -> NumLess(ToNumber(cellValue), ToNumber(value))
        [] filter.operator = "greater_equal" ->
             NumLessEq(ToNumber(value), ToNumber(cellValue))
        [] filter.operator = "less_equal" -> NumLessEq(ToNumber(cellValue), ToNumber(value))
        [] OTHER -> TRUE

\* filters.some(...): the row is kept when any one filter matches.
RowPassesSome(row, filters) ==
  \E i \in 1..Len(filters) : FilterMatches(row, filters[i])

\* filters.every(...)
RowPasses(row, filters) ==
  \A i \in 1..Len(filters) : FilterMatches(row, filters[i])

applyFilters(data, filters) == SelectSeq(data, LAMBDA row : RowPasses(row, filters))

(***************************************************************************)
(* applyPagination                                                         *)
(***************************************************************************)
Min(a, b) == IF a < b THEN a ELSE b
Max(a, b) == IF a > b THEN a ELSE b

\* Array.prototype.slice(start, end) with 0-based indexes; a negative index
\* counts from the end.
Slice(data, start, end) ==
  LET len == Len(data)
      from == IF start < 0 THEN Max(len + start, 0) ELSE Min(start, len)
      to == IF end < 0 THEN Max(len + end, 0) ELSE Min(end, len)
  IN  SubSeq(data, from + 1, to)

\* The start index of a 0-indexed page.
StartIndexZeroBased(page, pageSize) == page * pageSize

StartIndex(page, pageSize) == (page - 1) * pageSize

\* pagination is [page |-> p, pageSize |-> s]; a field left out takes its default.
DefaultPage == 1
DefaultPageSize == 10

applyPagination(data, pagination) ==
  LET page == IF "page" \in DOMAIN pagination THEN pagination.page ELSE DefaultPage
      pageSize == IF "pageSize" \in DOMAIN pagination THEN pagination.pageSize
                  ELSE DefaultPageSize
      startIndex == StartIndex(page, pageSize)
      endIndex == startIndex + pageSize
  IN  Slice(data, startIndex, endIndex)

(***************************************************************************)
(* applySorting                                                            *)
(***************************************************************************)
\* a < b on two values: two strings by code units, anything else as numbers.
JsLess(a, b) ==
  IF a.k = "string" /\ b.k = "string" THEN StrLess(a.s, b.s)
  ELSE NumLess(ToNumber(a), ToNumber(b))

\* The comparator with the direction ignored: always ascending.
CompareAscending(a, b, sort) ==
  LET aVal == Get(a, sort.column)
      bVal == Get(b, sort.column)
  IN  IF JsLess(aVal, bVal) THEN -1
      ELSE IF JsLess(bVal, aVal) THEN 1
      ELSE 0

\* The comparator handed to Array.prototype.sort.
Compare(a, b, sort) ==
  LET direction == IF "direction" \in DOMAIN sort THEN sort.direction ELSE "asc"
      aVal == Get(a, sort.column)
      bVal == Get(b, sort.column)
  IN  IF JsLess(aVal, bVal) THEN (IF direction = "asc" THEN -1 ELSE 1)
      ELSE IF JsLess(bVal, aVal) THEN (IF direction = "asc" THEN 1 ELSE -1)
      ELSE 0

\* Array.prototype.sort of the runtime (V8's TimSort) on an array shorter
\* than its minimum run: the leading run is found (a strictly descending one
\* is reversed), and the rest is inserted by binary insertion.
Reverse(seq) == [i \in 1..Len(seq) |-> seq[Len(seq) + 1 - i]]

RECURSIVE RunEnd(_, _, _, _)
RunEnd(work, idx, isDescending, sort) ==
  IF idx > Len(work) THEN idx - 1
  ELSE LET order == Compare(work[idx], work[idx - 1], sort)
       IN  IF (isDescending /\ order >= 0) \/ (~isDescending /\ order < 0)
           THEN idx - 1
           ELSE RunEnd(work, idx + 1, isDescending, sort)

RECURSIVE InsertionPoint(_, _, _, _, _)
InsertionPoint(work, pivot, left, right, sort) ==
  IF left >= right THEN left
  ELSE LET mid == left + ((right - left) \div 2)
       IN  IF Compare(pivot, work[mid + 1], sort) < 0
           THEN InsertionPoint(work, pivot, left, mid, sort)
           ELSE InsertionPoint(work, pivot, mid + 1, right, sort)

RECURSIVE BinaryInsertionSort(_, _, _)
BinaryInsertionSort(work, start, sort) ==
  IF start > Len(work) THEN work
  ELSE LET pivot == work[start]
           left == InsertionPoint(work, pivot, 0, start - 1, sort)
           next == SubSeq(work, 1, left) \o <<pivot>> \o SubSeq(work, left + 1, start - 1)
                     \o SubSeq(work, start + 1, Len(work))
       IN  BinaryInsertionSort(next, start + 1, sort)

ArraySort(data, sort) ==
  IF Len(data) < 2 THEN data
  ELSE LET isDescending == Compare(data[2], data[1], sort) < 0
           runLength == RunEnd(data, 3, isDescending, sort)
           work == IF isDescending
                   THEN Reverse(SubSeq(data, 1, runLength))
                          \o SubSeq(data, runLength + 1, Len(data))
                   ELSE data
       IN  BinaryInsertionSort(work, runLength + 1, sort)

\* [...data].sort(comparator): the input sequence is copied, never changed.
applySorting(data, sort) == ArraySort(data, sort)

(***************************************************************************)
(* applyAggregations                                                       *)
(***************************************************************************)
\* data.map(row => Number(row[column])).filter(val => !isNaN(val))
NumericValues(data, column) ==
  SelectSeq([i \in 1..Len(data) |-> ToNumber(Get(data[i], column))],
            LAMBDA val : ~IsNaN(val))

RECURSIVE SumOf(_)
SumOf(values) ==
  IF Len(values) = 0 THEN Num(0)
  ELSE NumAdd(SumOf(SubSeq(values, 1, Len(values) - 1)), values[Len(values)])

MinOf(values) ==
  values[CHOOSE i \in 1..Len(values) : \A j \in 1..Len(values) : NumLessEq(values[i], values[j])]
MaxOf(values) ==
  values[CHOOSE i \in 1..Len(values) : \A j \in 1..Len(values) : NumLessEq(values[j], values[i])]

KnownOperations == {"sum", "avg", "min", "max", "count"}

\* The value one {column: operation} pair puts into the result row.
AggregateValue(data, column, operation) ==
  LET values == NumericValues(data, column)
  IN  CASE operation = "sum" -> SumOf(values)
        [] operation = "avg" ->
             IF Len(values) > 0
             THEN Ratio(SumOf(values).n, SumOf(values).d * Len(values))
             ELSE Num(0)
        [] operation = "min" -> IF Len(values) > 0 THEN MinOf(values) ELSE Num(0)
        [] operation = "max" -> IF Len(values) > 0 THEN MaxOf(values) ELSE Num(0)
        [] OTHER -> Num(Len(values))

AggregateKey(column, operation) == column \o "_" \o operation

\* aggregations is the sequence Object.entries(aggregations) of
\* <<column, operation>> pairs; every known operation sets one key of result.
RECURSIVE AggregateResult(_, _)
AggregateResult(data, entries) ==
  IF Len(entries) = 0 THEN << >>
  ELSE LET rest == AggregateResult(data, SubSeq(entries, 1, Len(entries) - 1))
           column == entries[Len(entries)][1]
           operation == entries[Len(entries)][2]
       IN  IF operation \in KnownOperations
           THEN (AggregateKey(column, operation) :> AggregateValue(data, column, operation))
                  @@ rest
           ELSE rest

\* One summary row per input row instead of one for the whole input.
applyAggregationsPerRow(data, aggregations) ==
  [i \in 1..Len(data) |-> AggregateResult(<<data[i]>>, aggregations)]

applyAggregations(data, aggregations) == <<AggregateResult(data, aggregations)>>

(***************************************************************************)
(* applyGrouping                                                           *)
(***************************************************************************)
\* The property key a value is coerced to.
GroupKey(row, groupBy) == StringOf(Get(row, groupBy))

\* The distinct keys in the order in which groups[key] was first assigned.
RECURSIVE InsertionOrder(_, _)
InsertionOrder(data, groupBy) ==
  IF Len(data) = 0 THEN << >>
  ELSE LET before == InsertionOrder(SubSeq(data, 1, Len(data) - 1), groupBy)
           groupKey == GroupKey(data[Len(data)], groupBy)
       IN  IF \E i \in 1..Len(before) : before[i] = groupKey
           THEN before
           ELSE Append(before, groupKey)

\* An integer-index property key: a canonical decimal integer.
IsIndexKey(key) == AllDigits(key) /\ (key = "0" \/ CharAt(key, 1) # "0")

RECURSIVE Ascending(_)
Ascending(keys) ==
  IF keys = {} THEN << >>
  ELSE LET least == CHOOSE x \in keys : \A y \in keys : ParseDigits(x) <= ParseDigits(y)
       IN  <<least>> \o Ascending(keys \ {least})

\* Object.entries order of an object's own keys: the integer-index keys in
\* ascending numeric order, then the other keys in insertion order.
OwnKeys(inserted) ==
  Ascending({inserted[i] : i \in {j \in 1..Len(inserted) : IsIndexKey(inserted[j])}})
    \o SelectSeq(inserted, LAMBDA key : ~IsIndexKey(key))

\* Names every object inherits from Object.prototype: groups[name] is
\* there, and truthy, before any row was put into groups.
InheritedKeys == {"constructor", "toString", "valueOf", "hasOwnProperty", "__proto__"}

\* groups[groupKey].push is not a function: the TypeError of a row whose
\* group key is an inherited name.
GroupingThrows(data, groupBy) ==
  \E i \in 1..Len(data) : GroupKey(data[i], groupBy) \in InheritedKeys

\* The value applyGrouping returns, when it returns.
applyGrouping(data, groupBy) ==
  LET keys == OwnKeys(InsertionOrder(data, groupBy))
      values(key) == SelectSeq(data, LAMBDA row : GroupKey(row, groupBy) = key)
  IN  [i \in 1..Len(keys) |->
         [items |-> values(keys[i]), count |-> Len(values(keys[i]))]
           @@ (groupBy :> keys[i])]

(***************************************************************************)
(* handleDataTransform                                                     *)
(***************************************************************************)
\* A JSON object is the sequence of its <<key, value>> entries in key order.
Has(object, key) == \E i \in 1..Len(object) : object[i][1] = key
Field(object, key) == object[CHOOSE i \in 1..Len(object) : object[i][1] = key][2]
ObjectKeys(object) == [i \in 1..Len(object) |-> object[i][1]]

\* One stage applied to the rows, under the condition the handler tests.
ApplyStage(rows, key, value) ==
  CASE key = "filters" -> IF Len(value) > 0 THEN applyFilters(rows, value) ELSE rows
    [] key = "sort" -> applySorting(rows, value)
    [] key = "aggregations" -> applyAggregations(rows, value)
    [] key = "groupBy" -> IF value # "" THEN applyGrouping(rows, value) ELSE rows
    [] key = "pagination" -> applyPagination(rows, value)
    [] OTHER -> rows

\* The stages applied in the order of the keys of the config object.
RECURSIVE TransformInKeyOrder(_, _)
TransformInKeyOrder(data, transformConfig) ==
  IF Len(transformConfig) = 0 THEN data
  ELSE LET last == transformConfig[Len(transformConfig)]
       IN  ApplyStage(TransformInKeyOrder(data, SubSeq(transformConfig, 1,
                                                       Len(transformConfig) - 1)),
                      last[1], last[2])

\* The five ifs of the handler's try block, each on the rows so far.
FilterStage(rows, transformConfig) ==
  IF Has(transformConfig, "filters") /\ Len(Field(transformConfig, "filters")) > 0
  THEN applyFilters(rows, Field(transformConfig, "filters"))
  ELSE rows

SortStage(rows, transformConfig) ==
  IF Has(transformConfig, "sort")
  THEN applySorting(rows, Field(transformConfig, "sort"))
  ELSE rows

\* The aggregation left out: the rows go on as they are.
AggregateStageSkipped(rows, transformConfig) == rows

AggregateStage(rows, transformConfig) ==
  IF Has(transformConfig, "aggregations")
  THEN applyAggregations(rows, Field(transformConfig, "aggregations"))
  ELSE rows

GroupStage(rows, transformConfig) ==
  IF Has(transformConfig, "groupBy") /\ Field(transformConfig, "groupBy") # ""
  THEN applyGrouping(rows, Field(transformConfig, "groupBy"))
  ELSE rows

PaginateStage(rows, transformConfig) ==
  IF Has(transformConfig, "pagination")
  THEN applyPagination(rows, Field(transformConfig, "pagination"))
  ELSE rows

\* The body of the handler's try block: transformedData after the five ifs.
Transform(data, transformConfig) ==
  PaginateStage(
    GroupStage(
      AggregateStage(
        SortStage(FilterStage(data, transformConfig), transformConfig),
        transformConfig),
      transformConfig),
    transformConfig)

\* verifyToken: a token whose payload does not decode makes the handler throw
\* before its own try block, which the server answers with 500.
\* The tokens whose payload decodes, and the user each payload names.
UserOfToken ==
  [t \in {"header.payload.signature", "header.payload2.signature"} |->
     IF t = "header.payload.signature" THEN "user_1" ELSE "user_2"]
TokenDecodes(token) == token \in DOMAIN UserOfToken

TransformResponse(data, transformedData, transformConfig) ==
  [status |-> 200,
   body |-> [data |-> transformedData,
             metadata |-> [originalRowCount |-> Len(data),
                           transformedRowCount |-> Len(transformedData),
                           transformations |-> ObjectKeys(transformConfig)]]]

\* The grouping stage is reached with a row on which applyGrouping throws.
TransformThrows(data, transformConfig) ==
  /\ Has(transformConfig, "groupBy")
  /\ Field(transformConfig, "groupBy") # ""
  /\ GroupingThrows(AggregateStage(SortStage(FilterStage(data, transformConfig),
                                              transformConfig),
                                    transformConfig),
                     Field(transformConfig, "groupBy"))

handleDataTransform(token, data, transformConfig) ==
  IF ~TokenDecodes(token)
  THEN [status |-> 500, body |-> [error |-> "Internal server error"]]
  ELSE IF TransformThrows(data, transformConfig)
  THEN [status |-> 400,
        body |-> [error |-> "Failed to transform data",
                  details |-> "groups[groupKey].push is not a function"]]
  ELSE TransformResponse(data, Transform(data, transformConfig), transformConfig)

(***************************************************************************)
(* fetchCsvData                                                            *)
(***************************************************************************)
FirstIndexOf(s, c) ==
  IF \E i \in 1..Len(s) : CharAt(s, i) = c
  THEN CHOOSE i \in 1..Len(s) : CharAt(s, i) = c /\ \A j \in 1..(i - 1) : CharAt(s, j) # c
  ELSE 0

\* String.prototype.split on a one-character separator.
RECURSIVE Split(_, _)
Split(s, separator) ==
  LET i == FirstIndexOf(s, separator)
  IN  IF i = 0 THEN <<s>>
      ELSE <<SubSeq(s, 1, i - 1)>> \o Split(SubSeq(s, i + 1, Len(s)), separator)

\* replace(/"/g, '')
RECURSIVE RemoveQuotes(_)
RemoveQuotes(s) ==
  IF Len(s) = 0 THEN ""
  ELSE (IF CharAt(s, 1) = "\"" THEN "" ELSE CharAt(s, 1)) \o RemoveQuotes(SubSeq(s, 2, Len(s)))

\* csvText.split('\n').filter(line => line.trim())
NonBlankLines(csvText) == SelectSeq(Split(csvText, "\n"), LAMBDA line : Trim(line) # "")

\* line.split(',').map(v => v.trim().replace(/"/g, ''))
CsvFields(line) ==
  LET parts == Split(line, ",")
  IN  [i \in 1..Len(parts) |-> RemoveQuotes(Trim(parts[i]))]

\* A value used as a condition.
Truthy(v) ==
  CASE v.k = "number" -> v.n # 0
    [] v.k = "string" -> v.s # ""
    [] v.k = "boolean" -> v.n = 1
    [] OTHER -> FALSE

\* The data lines taken from the first line on: the header among them.
DataLinesWithHeader(lines, limit) ==
  IF Truthy(limit) THEN Slice(lines, 0, limit.n) ELSE Slice(lines, 0, Len(lines))

\* limit ? lines.slice(1, limit + 1) : lines.slice(1)
DataLines(lines, limit) ==
  IF Truthy(limit) THEN Slice(lines, 1, limit.n + 1) ELSE Slice(lines, 1, Len(lines))

\* headers.forEach((header, index) => row[header] = values[index] || ''),
\* for the first n headers; a later header of the same name overwrites.
RECURSIVE CsvRow(_, _, _)
CsvRow(headers, values, n) ==
  IF n = 0 THEN << >>
  ELSE (headers[n] :> Str(IF n <= Len(values) THEN values[n] ELSE ""))
         @@ CsvRow(headers, values, n - 1)

\* response.ok
IsOk(status) == status \in 200..299

\* The fetcher either returns rows or throws; status and csvText are the
\* remote server's answer.
fetchCsvData(status, csvText, limit) ==
  IF ~IsOk(status)
  THEN [ok |-> FALSE, error |-> "CSV fetch failed", status |-> status]
  ELSE LET lines == NonBlankLines(csvText)
       IN  IF Len(lines) = 0 THEN [ok |-> TRUE, rows |-> << >>]
           ELSE LET headers == CsvFields(lines[1])
                    dataLines == DataLines(lines, limit)
                IN  [ok |-> TRUE,
                     rows |-> [i \in 1..Len(dataLines) |->
                                 CsvRow(headers, CsvFields(dataLines[i]), Len(headers))]]

(***************************************************************************)
(* parseCSV of the upload dialog                                           *)
(***************************************************************************)
\* The loop of parseCSVLine from character i on.
RECURSIVE ParseFrom(_, _, _, _, _)
ParseFrom(line, i, current, inQuotes, result) ==
  IF i > Len(line) THEN Append(result, Trim(current))
  ELSE LET char == CharAt(line, i)
       IN  IF char = "\""
           THEN ParseFrom(line, i + 1, current, ~inQuotes, result)
           ELSE IF char = "," /\ ~inQuotes
           THEN ParseFrom(line, i + 1, "", inQuotes, Append(result, Trim(current)))
           ELSE ParseFrom(line, i + 1, current \o char, inQuotes, result)

\* The loop with the in-quotes flag never consulted.
parseCSVLineIgnoringQuotes(line) == CsvFields(line)

parseCSVLine(line) == ParseFrom(line, 1, "", FALSE, << >>)

\* An ISO date yyyy-mm-dd at the start of the text: /^\d{4}-\d{2}-\d{2}/
StartsWithIsoDate(s) ==
  /\ Len(s) >= 10
  /\ AllDigits(SubSeq(s, 1, 4))
  /\ CharAt(s, 5) = "-"
  /\ AllDigits(SubSeq(s, 6, 7))
  /\ CharAt(s, 8) = "-"
  /\ AllDigits(SubSeq(s, 9, 10))

\* !isNaN(Date.parse(val)).  An ISO date with a month and a day in range
\* parses in every engine.  What else parses is left to the engine: lenient
\* says whether the engine reads bare digits as a date (V8 reads "1" as one).
\* No engine reads the other texts of the model as a date.
DateParses(val, lenient) ==
  \/ /\ Len(val) = 10
     /\ StartsWithIsoDate(val)
     /\ ParseDigits(SubSeq(val, 6, 7)) \in 1..12
     /\ ParseDigits(SubSeq(val, 9, 10)) \in 1..31
  \/ lenient /\ AllDigits(Trim(val))

SampleSize == 10

\* The type parseCSV detects for the column at index.
DetectType(rows, index, lenient) ==
  LET sampled == Slice(rows, 0, SampleSize)
      present == SelectSeq(sampled, LAMBDA row : index <= Len(row))
      sampleValues ==
        SelectSeq([i \in 1..Len(present) |-> present[i][index]],
                  LAMBDA val : val # "" /\ Trim(val) # "")
      isNumber ==
        \A i \in 1..Len(sampleValues) :
          ~IsNaN(StringToNumber(sampleValues[i])) /\ Trim(sampleValues[i]) # ""
      isDate == \A i \in 1..Len(sampleValues) : DateParses(sampleValues[i], lenient)
  IN  IF Len(sampleValues) > 0
      THEN (IF isNumber THEN "number" ELSE IF isDate THEN "date" ELSE "string")
      ELSE "string"

parseCSV(csvText, lenient) ==
  LET lines == NonBlankLines(csvText)
  IN  IF Len(lines) = 0 THEN [ok |-> FALSE, error |-> "File is empty"]
      ELSE LET headers == parseCSVLine(lines[1])
               rows == [i \in 1..(Len(lines) - 1) |-> parseCSVLine(lines[i + 1])]
           IN  [ok |-> TRUE,
                headers |-> headers,
                rows |-> rows,
                schema |-> [index \in 1..Len(headers) |->
                              [name |-> headers[index],
                               type |-> DetectType(rows, index, lenient),
                               nullable |-> TRUE]]]

(***************************************************************************)
(* inferSchema and validateCsvSource                                       *)
(***************************************************************************)
inferDataType(value) ==
  CASE value.k \in {"null", "undefined"} -> "string"
    [] value.k = "number" -> "number"
    [] value.k = "boolean" -> "boolean"
    [] value.k = "string" ->
         IF StartsWithIsoDate(value.s) THEN "date"
         ELSE IF AllDigits(value.s) THEN "number"
         ELSE IF IsDecimal(value.s) THEN "number"
         ELSE "string"
    [] OTHER -> "string"

\* The first occurrence of each element, in order.
RECURSIVE Distinct(_)
Distinct(seq) ==
  IF Len(seq) = 0 THEN << >>
  ELSE LET before == Distinct(SubSeq(seq, 1, Len(seq) - 1))
       IN  IF InSeq(seq[Len(seq)], before) THEN before ELSE Append(before, seq[Len(seq)])

\* keys is Object.keys(data[0]); it is looked at only when data has a row.
inferSchema(data, keys) ==
  IF Len(data) = 0 THEN [columns |-> << >>]
  ELSE [columns |->
          [i \in 1..Len(keys) |->
             [name |-> keys[i],
              type |-> inferDataType(Get(data[1], keys[i])),
              nullable |-> \E j \in 1..Len(data) :
                             Get(data[j], keys[i]).k \in {"null", "undefined"}]]]

ValidationLimit == 5

\* The keys of the rows fetchCsvData builds, in Object.keys order.
CsvRowKeys(csvText) ==
  LET lines == NonBlankLines(csvText)
  IN  IF Len(lines) = 0 THEN << >> ELSE OwnKeys(Distinct(CsvFields(lines[1])))

validateCsvSource(status, csvText) ==
  LET fetched == fetchCsvData(status, csvText, Num(ValidationLimit))
  IN  IF fetched.ok
      THEN [isValid |-> TRUE,
            schema |-> inferSchema(fetched.rows, CsvRowKeys(csvText)),
            sampleData |-> fetched.rows]
      ELSE [isValid |-> FALSE, schema |-> Null, sampleData |-> Null]

(***************************************************************************)
(* Inputs.                                                                 *)
(***************************************************************************)
SeqsUpTo(S, n) == UNION {[1..k -> S] : k \in 0..n}

\* A row with the columns cat and value; an undefined value is a missing key.
Row(cat, value) ==
  IF value = Undefined THEN [cat |-> cat] ELSE [cat |-> cat, value |-> value]

FilterRows ==
  {Row(Str("a"), Num(1)), Row(Str("Ab"), Num(3)), Row(Str("b"), Str("foo")),
   Row(Str("b"), Null), Row(Str("a"), Undefined)}
Filter(column, operator, value) == [column |-> column, operator |-> operator, value |-> value]
FilterPool ==
  {Filter("value", "equals", Num(1)), Filter("value", "not_equals", Num(3)),
   Filter("cat", "contains", Str("A")), Filter("value", "greater_than", Num(0)),
   Filter("value", "less_equal", Str("1")), Filter("value", "between", Num(2))}

SortRows ==
  {Row(Str("a"), Num(2)), Row(Str("b"), Num(1)), Row(Str("c"), Num(1)),
   Row(Str("B"), Str("10")), Row(Str("a"), Undefined)}
SortPool ==
  {[column |-> "value"], [column |-> "value", direction |-> "asc"],
   [column |-> "value", direction |-> "desc"], [column |-> "cat", direction |-> "desc"]}

AggregateRows ==
  {Row(Num(1), Num(1)), Row(Num(2), Num(2)), Row(Str("a"), Str("3")),
   Row(Str("b"), Str("foo")), Row(Null, Str("")), Row(Str("b"), Undefined)}
Operations == KnownOperations \cup {"median"}
AggregationPool ==
  {<< >>}
    \cup {<<<<c, o>>>> : c \in {"value", "cat"}, o \in Operations}
    \cup {<<<<"value", o1>>, <<"cat", o2>>>> : o1 \in Operations, o2 \in KnownOperations}

GroupRows ==
  {Row(Str("a"), Num(1)), Row(Str("b"), Num(2)), Row(Num(2), Num(3)),
   Row(Str("1"), Num(4)), Row(Str("01"), Num(5)), Row(Null, Num(6)),
   Row(Str("constructor"), Num(7))}
GroupByPool == {"cat", "value", "region"}

PageRows == {Row(Str("a"), Num(1)), Row(Str("b"), Num(2))}
PaginationPool ==
  {[page |-> p, pageSize |-> s] : p \in (0 - MaxPage)..MaxPage, s \in 1..MaxPageSize}
    \cup {[page |-> p] : p \in 1..MaxPage}
    \cup {[pageSize |-> s] : s \in 1..MaxPageSize}
    \cup {<< >>}

TransformRows ==
  {Row(Str("a"), Num(1)), Row(Str("b"), Num(3)), Row(Str("a"), Num(2)),
   Row(Num(1), Str("foo")), Row(Str("constructor"), Num(4))}
Tokens == {"header.payload.signature", "garbage"}
\* The orders in which a config object lists its keys.
KeyOrders ==
  {<<"filters", "sort", "aggregations", "groupBy", "pagination">>,
   <<"pagination", "groupBy", "aggregations", "sort", "filters">>,
   <<"aggregations", "pagination", "filters", "groupBy", "sort">>}
\* Each stage's field: left out (the empty sequence) or one value.
FiltersChoice == {<< >>, << << >> >>, << <<Filter("value", "greater_than", Num(1))>> >>}
SortChoice == {<< >>, <<[column |-> "value", direction |-> "desc"]>>}
AggregationsChoice == {<< >>, << << >> >>, << <<<<"value", "sum">>>> >>}
GroupByChoice == {<< >>, <<"cat">>, <<"">>}
PaginationChoice ==
  {<< >>, <<[page |-> 1, pageSize |-> 1]>>, <<[page |-> 2, pageSize |-> 1]>>}
\* The config object that lists, in the given key order, the fields chosen.
ConfigObject(order, choice) ==
  LET present == SelectSeq(order, LAMBDA key : Len(choice[key]) > 0)
  IN  [i \in 1..Len(present) |-> <<present[i], choice[present[i]][1]>>]

\* The lines a CSV text is made of, each the sequence of its cells.
LinePool ==
  {<<"x", "y">>, <<"x", "x">>, <<"1", "2">>, <<"foo">>, <<"3", "foo", "5">>,
   <<"\"a,b\"", "c">>, <<"">>, <<" a", "2024-01-01">>, <<"2", "2024-02-01">>,
   <<"\"q\"", "1">>}

RECURSIVE Join(_, _)
Join(parts, separator) ==
  IF Len(parts) = 0 THEN ""
  ELSE IF Len(parts) = 1 THEN parts[1]
  ELSE parts[1] \o separator \o Join(Tail(parts), separator)

\* The CSV text of a table: the cells of a line joined by commas, the lines
\* by line feeds.
CsvText(table) == Join([i \in 1..Len(table) |-> Join(table[i], ",")], "\n")

Limits == {Undefined} \cup {Num(n) : n \in 0..MaxLimit}
Statuses == {200, 404}

SchemaRows ==
  {Row(Str("1"), Num(1)), Row(Str("foo"), Null), Row(Str("2024-01-01"), Str("2.5")),
   Row(Str("2"), Bool(TRUE)), Row(Num(3), Undefined)}

(***************************************************************************)
(* The specification: the server is idle, handles one call and returns to  *)
(* idle; a call's result depends on nothing but its arguments.             *)
(***************************************************************************)
\* No entity is stored, the database's tables are empty, no request is being
\* handled and nothing is cached.
EmptyStorage ==
  [dataSources |-> << >>, dashboards |-> << >>, widgets |-> << >>, templates |-> << >>]
EmptyDatabase == [data_sources |-> << >>, data_source_data |-> << >>]

\* The state DashboardEditor starts with: its state object and the
\* unsaved-changes and saving flags kept beside it.
InitialEditor ==
  [currentDashboard |-> Null, widgets |-> << >>, dataSources |-> << >>,
   selectedWidget |-> Null, isEditing |-> TRUE, isDragging |-> FALSE,
   showWidgetPalette |-> TRUE, showDataSourcePanel |-> FALSE,
   showPropertyPanel |-> FALSE, previewMode |-> FALSE,
   loading |-> TRUE, saving |-> FALSE, hasUnsavedChanges |-> FALSE]

\* The state DataSourceViewer starts with; {} is the row with no column.
InitialViewer ==
  [data |-> << >>, schema |-> Null, loading |-> TRUE, editingRow |-> Null,
   editingData |-> << >>, searchQuery |-> "", error |-> Null]

Init ==
  /\ op = "idle" /\ arg = << >> /\ out = << >>
  /\ storage = EmptyStorage
  /\ database = EmptyDatabase
  /\ inflight = << >>
  /\ cache = << >>
  /\ ui = [editor |-> InitialEditor, viewer |-> InitialViewer]

ApplyFilters ==
  /\ op = "idle"
  /\ UNCHANGED server
  /\ \E data \in SeqsUpTo(FilterRows, MaxRows), filters \in SeqsUpTo(FilterPool, MaxFilters) :
       /\ op' = "applyFilters"
       /\ arg' = [data |-> data, filters |-> filters]
       /\ out' = applyFilters(data, filters)

ApplySorting ==
  /\ op = "idle"
  /\ UNCHANGED server
  /\ \E data \in SeqsUpTo(SortRows, MaxRows), sort \in SortPool :
       /\ op' = "applySorting"
       /\ arg' = [data |-> data, sort |-> sort]
       /\ out' = applySorting(data, sort)

ApplyAggregations ==
  /\ op = "idle"
  /\ UNCHANGED server
  /\ \E data \in SeqsUpTo(AggregateRows, MaxRows), aggregations \in AggregationPool :
       /\ op' = "applyAggregations"
       /\ arg' = [data |-> data, aggregations |-> aggregations]
       /\ out' = applyAggregations(data, aggregations)

ApplyGrouping ==
  /\ op = "idle"
  /\ UNCHANGED server
  /\ \E data \in SeqsUpTo(GroupRows, MaxRows), groupBy \in GroupByPool :
       /\ op' = IF GroupingThrows(data, groupBy) THEN "applyGroupingThrew" ELSE "applyGrouping"
       /\ arg' = [data |-> data, groupBy |-> groupBy]
       /\ out' = IF GroupingThrows(data, groupBy)
                 THEN Str("TypeError: groups[groupKey].push is not a function")
                 ELSE applyGrouping(data, groupBy)

ApplyPagination ==
  /\ op = "idle"
  /\ UNCHANGED server
  /\ \E data \in SeqsUpTo(PageRows, MaxPageRows), pagination \in PaginationPool :
       /\ op' = "applyPagination"
       /\ arg' = [data |-> data, pagination |-> pagination]
       /\ out' = applyPagination(data, pagination)

HandleDataTransform ==
  /\ op = "idle"
  /\ UNCHANGED server
  /\ \E token \in Tokens, data \in SeqsUpTo(TransformRows, MaxRows), order \in KeyOrders,
        f \in FiltersChoice, s \in SortChoice, a \in AggregationsChoice,
        g \in GroupByChoice, p \in PaginationChoice :
       LET transformConfig ==
             ConfigObject(order, [filters |-> f, sort |-> s, aggregations |-> a,
                                  groupBy |-> g, pagination |-> p])
       IN  /\ op' = "handleDataTransform"
           /\ arg' = [token |-> token, data |-> data, transformConfig |-> transformConfig]
           /\ out' = handleDataTransform(token, data, transformConfig)

FetchCsvData ==
  /\ op = "idle"
  /\ UNCHANGED server
  /\ \E status \in Statuses, table \in SeqsUpTo(LinePool, MaxCsvLines), limit \in Limits :
       /\ IsOk(status) \/ limit = Undefined
       /\ op' = "fetchCsvData"
       /\ arg' = [status |-> status, table |-> table, csvText |-> CsvText(table),
                  limit |-> limit]
       /\ out' = fetchCsvData(status, CsvText(table), limit)

\* handleFileUpload: the file's text parsed by parseCSV in the browser.
ParseCSV ==
  /\ op = "idle"
  /\ UNCHANGED server
  /\ \E table \in SeqsUpTo(LinePool, MaxCsvLines), lenient \in BOOLEAN :
       /\ op' = "parseCSV"
       /\ arg' = [table |-> table, csvText |-> CsvText(table), lenient |-> lenient]
       /\ out' = parseCSV(CsvText(table), lenient)

ValidateCsvSource ==
  /\ op = "idle"
  /\ UNCHANGED server
  /\ \E status \in Statuses, table \in SeqsUpTo(LinePool, MaxCsvLines) :
       /\ op' = "validateCsvSource"
       /\ arg' = [status |-> status, table |-> table, csvText |-> CsvText(table)]
       /\ out' = validateCsvSource(status, CsvText(table))

\* inferSchema on rows as an api or json source gives them; the keys of a
\* row are in the order cat, value.
InferSchema ==
  /\ op = "idle"
  /\ UNCHANGED server
  /\ \E data \in SeqsUpTo(SchemaRows, MaxRows) :
       /\ op' = "inferSchema"
       /\ arg' = [data |-> data]
       /\ out' = inferSchema(data, IF Len(data) = 0 THEN << >>
                                   ELSE SelectSeq(<<"cat", "value">>,
                                                  LAMBDA key : key \in DOMAIN data[1]))

\* The response is sent; nothing of the call is kept.
Respond == op # "idle" /\ op' = "idle" /\ arg' = << >> /\ out' = << >> /\ UNCHANGED server

Next ==
  \/ ApplyFilters
  \/ ApplySorting
  \/ ApplyAggregations
  \/ ApplyGrouping
  \/ ApplyPagination
  \/ HandleDataTransform
  \/ Respond

\* The transform pipeline and its stages.
Spec == Init /\ [][Next]_vars

NextCsv ==
  \/ FetchCsvData
  \/ ParseCSV
  \/ ValidateCsvSource
  \/ InferSchema
  \/ Respond

\* CSV ingestion and schema inference.
CsvSpec == Init /\ [][NextCsv]_vars

(***************************************************************************)
(* Properties of the transform pipeline.                                   *)
(***************************************************************************)
FixedOrder == <<"filters", "sort", "aggregations", "groupBy", "pagination">>

\* The first n stages of the fixed order, each applied only if the config
\* has its field.
RECURSIVE InFixedOrder(_, _, _)
InFixedOrder(data, transformConfig, n) ==
  IF n = 0 THEN data
  ELSE LET rows == InFixedOrder(data, transformConfig, n - 1)
           key == FixedOrder[n]
       IN  IF Has(transformConfig, key)
           THEN ApplyStage(rows, key, Field(transformConfig, key))
           ELSE rows

\* C1: whatever the order of the keys in the config object, the data that
\* handleDataTransform answers with is paginate(group(aggregate(sort(filter(
\* data))))) restricted to the stages whose field the config has.
C1_FixedStageOrder ==
  (op = "handleDataTransform" /\ out.status = 200)
    => out.body.data = InFixedOrder(arg.data, arg.transformConfig, Len(FixedOrder))

\* A config that lists pagination first and has all five fields, on data for
\* which applying the stages in key order would give another result.
C1_Witness ==
  /\ op = "handleDataTransform"
  /\ out.status = 200
  /\ Len(arg.transformConfig) = Len(FixedOrder)
  /\ ObjectKeys(arg.transformConfig)[1] = "pagination"
  /\ Len(Field(arg.transformConfig, "filters")) > 0
  /\ out.body.data # TransformInKeyOrder(arg.data, arg.transformConfig)
  /\ Len(out.body.data) = 1

\* C2: applyFilters with two filters returns exactly the rows that each of
\* the two filters alone lets through, in their input order.
C2_FilterIntersection ==
  (op = "applyFilters" /\ Len(arg.filters) = 2)
    => out = SelectSeq(arg.data,
                       LAMBDA row :
                         /\ InSeq(row, applyFilters(arg.data, <<arg.filters[1]>>))
                         /\ InSeq(row, applyFilters(arg.data, <<arg.filters[2]>>)))

\* Two filters that each keep some rows the other drops, and a row both keep.
C2_Witness ==
  /\ op = "applyFilters"
  /\ Len(arg.filters) = 2
  /\ Len(out) > 0
  /\ Len(out) < Len(applyFilters(arg.data, <<arg.filters[1]>>))
  /\ Len(out) < Len(applyFilters(arg.data, <<arg.filters[2]>>))

PageSizeOf(pagination) ==
  IF "pageSize" \in DOMAIN pagination THEN pagination.pageSize ELSE DefaultPageSize
PageOf(pagination) == IF "page" \in DOMAIN pagination THEN pagination.page ELSE DefaultPage
\* ceil(N / pageSize)
PageCount(N, pageSize) == (N + pageSize - 1) \div pageSize

RECURSIVE PagesUpTo(_, _, _)
PagesUpTo(data, pageSize, lastPage) ==
  IF lastPage = 0 THEN << >>
  ELSE PagesUpTo(data, pageSize, lastPage - 1)
         \o applyPagination(data, [page |-> lastPage, pageSize |-> pageSize])

\* C3: for pageSize >= 1 the pages 1..ceil(N/pageSize) concatenated are the
\* input sequence, and every page after the last is empty.
C3_PagesCoverData ==
  (op = "applyPagination" /\ PageSizeOf(arg.pagination) >= 1)
    => LET pageSize == PageSizeOf(arg.pagination)
           last == PageCount(Len(arg.data), pageSize)
       IN  /\ PagesUpTo(arg.data, pageSize, last) = arg.data
           /\ \A page \in (last + 1)..(last + MaxPage) :
                applyPagination(arg.data, [page |-> page, pageSize |-> pageSize]) = << >>
           /\ PageOf(arg.pagination) > last => out = << >>
           /\ PageOf(arg.pagination) \in 1..last
                => out = SubSeq(arg.data, (PageOf(arg.pagination) - 1) * pageSize + 1,
                                Min(PageOf(arg.pagination) * pageSize, Len(arg.data)))

\* The third and last page of five rows in pages of two.
C3_Witness ==
  /\ op = "applyPagination"
  /\ Len(arg.data) = 5
  /\ arg.pagination = [page |-> 3, pageSize |-> 2]
  /\ out = <<arg.data[5]>>

\* C4 (as claimed): the group rows come in the order in which each distinct
\* value of the groupBy column first occurs in the input.
C4_FirstOccurrenceOrder ==
  op = "applyGrouping"
    => [i \in 1..Len(out) |-> out[i][arg.groupBy]] = InsertionOrder(arg.data, arg.groupBy)

\* C5: with operations among sum, avg, min, max and count, applyAggregations
\* returns exactly one row, whose keys are column_operation, one per pair.
C5_OneSummaryRow ==
  (op = "applyAggregations"
     /\ \A i \in 1..Len(arg.aggregations) : arg.aggregations[i][2] \in KnownOperations)
    => /\ Len(out) = 1
       /\ DOMAIN out[1] = {arg.aggregations[i][1] \o "_" \o arg.aggregations[i][2] :
                             i \in 1..Len(arg.aggregations)}
       /\ Cardinality(DOMAIN out[1]) = Len(arg.aggregations)

\* Two pairs over the empty row sequence.
C5_Witness ==
  /\ op = "applyAggregations"
  /\ arg.data = << >>
  /\ arg.aggregations = <<<<"value", "avg">>, <<"cat", "count">>>>
  /\ Len(out) = 1
  /\ DOMAIN out[1] = {"value_avg", "cat_count"}

\* A value that is numeric in the sense of the claim: a number, or text that
\* reads as one; missing, null, the empty string and other text are not.
IsNumericValue(v) ==
  \/ v.k = "number"
  \/ v.k = "string" /\ Trim(v.s) # "" /\ ~IsNaN(StringToNumber(v.s))

NumericCells(data, column) ==
  SelectSeq([i \in 1..Len(data) |-> Get(data[i], column)], IsNumericValue)

\* C6 (as claimed): only the numeric values of the column contribute: sum is
\* their sum, count their number, avg their sum over their number, and 0
\* when there is none.
C6_OnlyNumericValuesContribute ==
  op = "applyAggregations"
    => \A i \in 1..Len(arg.aggregations) :
         LET column == arg.aggregations[i][1]
             operation == arg.aggregations[i][2]
             cells == NumericCells(arg.data, column)
             numbers == [j \in 1..Len(cells) |-> ToNumber(cells[j])]
             value == out[1][AggregateKey(column, operation)]
         IN  /\ operation = "sum" => value = SumOf(numbers)
             /\ operation = "count" => value = Num(Len(cells))
             /\ operation = "avg"
                  => value = IF Len(cells) = 0 THEN Num(0)
                             ELSE Ratio(SumOf(numbers).n, SumOf(numbers).d * Len(cells))

(***************************************************************************)
(* Properties of CSV ingestion and schema inference.                       *)
(***************************************************************************)
\* The non-blank lines of the call's CSV text: the header, then the data.
Lines == NonBlankLines(arg.csvText)

QuotedLine == "\"a,b\",c"

\* C7 (as claimed): a comma inside a double-quoted field is part of the field:
\* the data line "a,b",c gives the two fields a,b and c, in the upload
\* dialog's parser and in fetchCsvData (under the header x,y).
C7_QuotedCommaStaysInField ==
  /\ (op = "parseCSV" /\ out.ok)
       => \A i \in 1..Len(out.rows) :
            Lines[i + 1] = QuotedLine => out.rows[i] = <<"a,b", "c">>
  /\ (op = "fetchCsvData" /\ out.ok /\ arg.limit = Undefined /\ Len(Lines) > 0)
       => \A i \in 1..Len(out.rows) :
            (Lines[1] = "x,y" /\ Lines[i + 1] = QuotedLine)
              => out.rows[i] = [x |-> Str("a,b"), y |-> Str("c")]

\* The rows the claim describes: one per data line, keyed by the header
\* names, '' where the line has no field, surplus fields dropped.
ExpectedCsvRows(headers, dataLines) ==
  [i \in 1..Len(dataLines) |->
     LET fields == CsvFields(dataLines[i])
     IN  [name \in {headers[j] : j \in 1..Len(headers)} |->
            LET j == CHOOSE x \in 1..Len(headers) :
                       headers[x] = name /\ \A y \in (x + 1)..Len(headers) : headers[y] # name
            IN  Str(IF j <= Len(fields) THEN fields[j] ELSE "")]]

\* C8 (as claimed): the first non-blank line is the header; every following
\* data line gives one row with exactly the header names as keys; with a
\* limit L only the first L data lines are returned.
C8_RowsKeyedByHeader ==
  (op = "fetchCsvData" /\ out.ok /\ Len(Lines) > 0)
    => LET following == Tail(Lines)
           wanted == IF arg.limit = Undefined THEN following
                     ELSE SubSeq(following, 1, Min(arg.limit.n, Len(following)))
       IN  out.rows = ExpectedCsvRows(CsvFields(Lines[1]), wanted)

\* The same with a limit of at least 1, or none: this much the code does.
C8_RowsKeyedByHeaderForPositiveLimit ==
  (op = "fetchCsvData" /\ out.ok /\ Len(Lines) > 0
     /\ (arg.limit = Undefined \/ arg.limit.n >= 1))
    => LET following == Tail(Lines)
           wanted == IF arg.limit = Undefined THEN following
                     ELSE SubSeq(following, 1, Min(arg.limit.n, Len(following)))
       IN  out.rows = ExpectedCsvRows(CsvFields(Lines[1]), wanted)

\* A generated CSV: a header line and M data lines of N cells each, no cell
\* with a comma in it.
IsGenerated(table) ==
  /\ Len(table) >= 1
  /\ Len(table[1]) >= 1
  /\ \A i \in 1..Len(table) :
       /\ Len(table[i]) = Len(table[1])
       /\ \A j \in 1..Len(table[i]) : FirstIndexOf(table[i][j], ",") = 0

\* Parsing gave back every cell of the table as the string it was.
CellsReproduced(table) ==
  /\ op = "parseCSV" => out.ok /\ out.headers = table[1] /\ out.rows = Tail(table)
  /\ op = "fetchCsvData"
       => /\ Len(out.rows) = Len(table) - 1
          /\ \A i \in 1..Len(out.rows) :
               /\ DOMAIN out.rows[i] = {table[1][j] : j \in 1..Len(table[1])}
               /\ \A j \in 1..Len(table[1]) :
                    Get(out.rows[i], table[1][j]) = Str(table[i + 1][j])

RoundTripCall ==
  \/ op = "parseCSV"
  \/ op = "fetchCsvData" /\ out.ok /\ arg.limit = Undefined

\* C9 (as claimed): parsing a generated CSV reproduces every original cell
\* exactly as a string.
C9_RoundTripExact == (RoundTripCall /\ IsGenerated(arg.table)) => CellsReproduced(arg.table)

\* A cell that the parsers leave as it is: no double quote, no whitespace
\* at either end, no line break.
IsCleanCell(cell) ==
  /\ FirstIndexOf(cell, "\"") = 0
  /\ FirstIndexOf(cell, "\n") = 0
  /\ Trim(cell) = cell

IsCleanTable(table) ==
  /\ \A i \in 1..Len(table) :
       /\ \A j \in 1..Len(table[i]) : IsCleanCell(table[i][j])
       /\ Join(table[i], ",") # ""
  /\ op = "fetchCsvData"
       => \A j, k \in 1..Len(table[1]) : table[1][j] = table[1][k] => j = k

\* C9 (amended): the cells are reproduced when, besides having no comma,
\* they have no double quote, no line break and no whitespace at either
\* end, no line is blank, and (for fetchCsvData) the header names differ.
C9_RoundTripOfCleanCells ==
  (RoundTripCall /\ IsGenerated(arg.table) /\ IsCleanTable(arg.table))
    => CellsReproduced(arg.table)

\* A header and two data lines of two clean cells each, fetched with no limit.
C9_Witness ==
  /\ op = "fetchCsvData"
  /\ arg.limit = Undefined
  /\ arg.table = <<<<"x", "y">>, <<"1", "2">>, <<"2", "2024-02-01">>>>
  /\ out.ok
  /\ out.rows = <<[x |-> Str("1"), y |-> Str("2")], [x |-> Str("2"), y |-> Str("2024-02-01")]>>

\* The texts the claim calls numeric literals and date-like values; a text
\* is date-like for inferSchema when it starts with an ISO date, and for the
\* dialog when the browser's Date.parse reads it.
IsNumericLiteral(s) == Trim(s) # "" /\ ~IsNaN(StringToNumber(s))
IsDateLike(s, inDialog) == IF inDialog THEN DateParses(s, arg.lenient) ELSE StartsWithIsoDate(s)

\* The type the claim gives a column with these sampled values.
ClaimedType(values, inDialog) ==
  LET nonEmpty == SelectSeq(values, LAMBDA val : Trim(val) # "")
  IN  IF Len(nonEmpty) > 0 /\ \A i \in 1..Len(nonEmpty) : IsNumericLiteral(nonEmpty[i])
      THEN "number"
      ELSE IF Len(nonEmpty) > 0 /\ \A i \in 1..Len(nonEmpty) : IsDateLike(nonEmpty[i], inDialog)
      THEN "date"
      ELSE "string"

\* The sampled values of a column: of the rows parseCSV returns, and of the
\* sample rows the validator hands to inferSchema.
ParsedColumn(index) ==
  LET present == SelectSeq(out.rows, LAMBDA row : index <= Len(row))
  IN  [i \in 1..Len(present) |-> present[i][index]]
SampledColumn(name) == [i \in 1..Len(out.sampleData) |-> Get(out.sampleData[i], name).s]

\* C10 (as claimed): a column is a number only if every sampled non-empty
\* value is a numeric literal, else a date only if every sampled value is
\* date-like, else a string, in inferSchema and in the dialog's parseCSV.
C10_TypeFromEverySampledValue ==
  /\ (op = "parseCSV" /\ out.ok)
       => \A index \in 1..Len(out.schema) :
            out.schema[index].type = ClaimedType(ParsedColumn(index), TRUE)
  /\ (op = "validateCsvSource" /\ out.isValid)
       => \A c \in 1..Len(out.schema.columns) :
            out.schema.columns[c].type = ClaimedType(SampledColumn(out.schema.columns[c].name), FALSE)

\* The same of the dialog's parseCSV alone: this much the code does.
C10_TypeFromEverySampledValueInDialog ==
  (op = "parseCSV" /\ out.ok)
    => \A index \in 1..Len(out.schema) :
         out.schema[index].type = ClaimedType(ParsedColumn(index), TRUE)

(***************************************************************************)
(* Properties of the nullable flag.                                        *)
(***************************************************************************)
\* The sampled rows of a parseCSV call that have no value for the column at
\* index: the line has no such field, or the field is empty.
LacksValue(row, index) == index > Len(row) \/ row[index] = ""

\* C11 (as claimed): a column's nullable flag is true exactly when some sampled
\* row has no value for the column: null or undefined for inferSchema, a
\* missing or empty field for the dialog's parseCSV.
C11_NullableIffSomeValueMissing ==
  /\ op = "inferSchema"
       => \A c \in 1..Len(out.columns) :
            out.columns[c].nullable
              <=> \E j \in 1..Len(arg.data) :
                    Get(arg.data[j], out.columns[c].name).k \in {"null", "undefined"}
  /\ (op = "parseCSV" /\ out.ok)
       => \A index \in 1..Len(out.schema) :
            out.schema[index].nullable
              <=> \E i \in 1..Len(Slice(out.rows, 0, SampleSize)) :
                    LacksValue(out.rows[i], index)

\* The same of inferSchema alone: this much the code does.
C11_NullableIffSomeValueMissingInInferSchema ==
  op = "inferSchema"
    => \A c \in 1..Len(out.columns) :
         out.columns[c].nullable
           <=> \E j \in 1..Len(arg.data) :
                 Get(arg.data[j], out.columns[c].name).k \in {"null", "undefined"}

(***************************************************************************)
(* The remote server's answer to a fetch, and the api and json fetchers.   *)
(*                                                                         *)
(* An answer is [reached, status, statusText, kind, items, text]: reached  *)
(* is FALSE when fetch() itself rejects; kind says what the body is: a     *)
(* JSON "array" of items, a JSON "object" (items holds the one object), or *)
(* "text" that is no JSON.  A fetcher gives [ok |-> TRUE, data |-> ...] or  *)
(* [ok |-> FALSE, error |-> message]: the Error it throws.                 *)
(***************************************************************************)
Returned(data) == [ok |-> TRUE, data |-> data, error |-> ""]
Thrown(message) == [ok |-> FALSE, data |-> Null, error |-> message]

\* A parsed JSON body.
JsonArray(items) == [kind |-> "array", items |-> items]
JsonObject(object) == [kind |-> "object", items |-> <<object>>]
IsArray(data) == data.kind = "array"

\* `${prefix}: ${response.status} ${response.statusText}`
StatusMessage(prefix, answer) ==
  prefix \o ": " \o DigitString(answer.status) \o " " \o answer.statusText

\* response.json()
ParsedBody(answer) == [kind |-> answer.kind, items |-> answer.items]

\* Array.isArray(data) && limit ? data.slice(0, limit) : data
Limited(data, limit) ==
  IF IsArray(data) /\ Truthy(limit)
  THEN JsonArray(Slice(data.items, 0, limit.n))
  ELSE data

fetchJsonData(answer, limit) ==
  IF ~answer.reached THEN Thrown("fetch failed")
  ELSE IF ~IsOk(answer.status) THEN Thrown(StatusMessage("JSON fetch failed", answer))
  ELSE IF answer.kind = "text" THEN Thrown("Unexpected token in JSON")
  ELSE Returned(Limited(ParsedBody(answer), limit))

\* String.prototype.replace(pattern, replacement) with a text pattern: the
\* first occurrence only.
ReplaceFirst(s, pattern, replacement) ==
  IF Includes(s, pattern)
  THEN LET i == CHOOSE j \in 1..(Len(s) + 1) :
                  /\ j + Len(pattern) - 1 <= Len(s)
                  /\ SubSeq(s, j, j + Len(pattern) - 1) = pattern
                  /\ \A h \in 1..(j - 1) : SubSeq(s, h, h + Len(pattern) - 1) # pattern
       IN  SubSeq(s, 1, i - 1) \o replacement \o SubSeq(s, i + Len(pattern), Len(s))
  ELSE s

Placeholder == "{{API_KEY}}"

\* processedHeaders after the first n entries of config.headers; apiKey is
\* Deno.env.get('API_KEY'), Undefined when the variable is not set.
RECURSIVE ProcessedHeaders(_, _, _)
ProcessedHeaders(headers, apiKey, n) ==
  IF n = 0 THEN ("Content-Type" :> "application/json")
  ELSE LET key == headers[n][1]
           value == headers[n][2]
       IN  (key :> (IF Includes(value, Placeholder) /\ Truthy(apiKey)
                    THEN ReplaceFirst(value, Placeholder, apiKey.s)
                    ELSE value))
             @@ ProcessedHeaders(headers, apiKey, n - 1)

\* const { url, method = 'GET', headers = {}, params = {} } = config
MethodOf(config) == IF "method" \in DOMAIN config THEN config.method ELSE "GET"
HeadersOf(config) == IF "headers" \in DOMAIN config THEN config.headers ELSE << >>
ParamsOf(config) == IF "params" \in DOMAIN config THEN config.params ELSE << >>

\* new URLSearchParams(params).toString(), for names and values that need
\* no escaping.
QueryString(params) == Join([i \in 1..Len(params) |-> params[i][1] \o "=" \o params[i][2]], "&")

FullUrl(config) ==
  config.url \o (IF QueryString(ParamsOf(config)) # ""
                 THEN "?" \o QueryString(ParamsOf(config))
                 ELSE "")

\* The request fetchApiData sends.
ApiRequest(config, apiKey) ==
  [url |-> FullUrl(config),
   method |-> MethodOf(config),
   headers |-> ProcessedHeaders(HeadersOf(config), apiKey, Len(HeadersOf(config)))]

fetchApiData(answer, limit) ==
  IF ~answer.reached THEN Thrown("fetch failed")
  ELSE IF ~IsOk(answer.status)
  THEN Thrown(StatusMessage("API request failed", answer) \o " - " \o answer.text)
  ELSE IF answer.kind = "text" THEN Thrown("Unexpected token in JSON")
  ELSE Returned(Limited(ParsedBody(answer), limit))

(***************************************************************************)
(* generateStaticData                                                      *)
(*                                                                         *)
(* Math.random() is an input: stream is the sequence of its results, read  *)
(* cyclically, each the numerator of a fraction over RandomScale.  The     *)
(* clock is Date.now() in seconds since 2024-01-01T00:00:00Z; the random   *)
(* fractions are multiples of 8/1024, so that every time is whole seconds. *)
(***************************************************************************)
RandomScale == 1024
DefaultCount == 100
SecondsPerDay == 86400
MonthLengths == <<31, 29, 31, 30, 31, 30, 31, 31, 30, 31, 30, 31>>

\* The n-th result of Math.random(), n from 1.
RandomAt(stream, n) == stream[((n - 1) % Len(stream)) + 1]

\* Math.floor(Math.random() * range)
RandomIndex(r, range) == (r * range) \div RandomScale

\* Date.now() - Math.random() * days * 24 * 60 * 60 * 1000, in seconds.
TimeBefore(clock, r, days) == clock - (r \div 8) * days * (SecondsPerDay \div 128)

TwoDigits(n) == IF n < 10 THEN "0" \o DigitString(n) ELSE DigitString(n)

RECURSIVE MonthOf(_, _)
MonthOf(dayOfYear, month) ==
  IF dayOfYear < MonthLengths[month] THEN month
  ELSE MonthOf(dayOfYear - MonthLengths[month], month + 1)

RECURSIVE DayOfMonth(_, _)
DayOfMonth(dayOfYear, month) ==
  IF dayOfYear < MonthLengths[month] THEN dayOfYear + 1
  ELSE DayOfMonth(dayOfYear - MonthLengths[month], month + 1)

\* new Date(time).toISOString(), for a time in 2024.
ToISOString(time) ==
  LET dayOfYear == time \div SecondsPerDay
      second == time % SecondsPerDay
  IN  "2024-" \o TwoDigits(MonthOf(dayOfYear, 1)) \o "-" \o TwoDigits(DayOfMonth(dayOfYear, 1))
        \o "T" \o TwoDigits(second \div 3600) \o ":" \o TwoDigits((second % 3600) \div 60)
        \o ":" \o TwoDigits(second % 60) \o ".000Z"

\* toISOString().split('T')[0]
IsoDate(time) == Split(ToISOString(time), "T")[1]

Products == <<"Product A", "Product B", "Product C">>
Regions == <<"North", "South", "East", "West">>
UserStatuses == <<"active", "inactive">>
Plans == <<"free", "pro", "enterprise">>

\* The row pushed in iteration i (from 0); r(c) is the c-th Math.random()
\* of the iteration.
SalesRow(i, clock, stream) ==
  LET r(c) == RandomAt(stream, 5 * i + c)
  IN  [id |-> Num(i + 1),
       date |-> Str(IsoDate(TimeBefore(clock, r(1), 30))),
       product |-> Str(Products[RandomIndex(r(2), 3) + 1]),
       revenue |-> Num(RandomIndex(r(3), 10000) + 1000),
       quantity |-> Num(RandomIndex(r(4), 100) + 1),
       region |-> Str(Regions[RandomIndex(r(5), 4) + 1])]

UserRow(i, clock, stream) ==
  LET r(c) == RandomAt(stream, 3 * i + c)
  IN  [id |-> Num(i + 1),
       name |-> Str("User " \o DigitString(i + 1)),
       email |-> Str("user" \o DigitString(i + 1) \o "@example.com"),
       signupDate |-> Str(IsoDate(TimeBefore(clock, r(1), 365))),
       status |-> Str(UserStatuses[RandomIndex(r(2), 2) + 1]),
       plan |-> Str(Plans[RandomIndex(r(3), 3) + 1])]

GenericRow(i, clock, stream) ==
  LET r(c) == RandomAt(stream, 3 * i + c)
  IN  [id |-> Num(i + 1),
       value |-> Num(RandomIndex(r(1), 1000)),
       category |-> Str("Category " \o DigitString(RandomIndex(r(2), 5) + 1)),
       timestamp |-> Str(ToISOString(TimeBefore(clock, r(3), 7)))]

\* const { dataType = 'sales' } = config
DataTypeOf(config) == IF "dataType" \in DOMAIN config THEN config.dataType ELSE "sales"

\* limit || 100
CountOf(limit) == IF Truthy(limit) THEN limit.n ELSE DefaultCount

generateStaticData(config, limit, clock, stream) ==
  [i \in 1..CountOf(limit) |->
     CASE DataTypeOf(config) = "sales" -> SalesRow(i - 1, clock, stream)
       [] DataTypeOf(config) = "users" -> UserRow(i - 1, clock, stream)
       [] OTHER -> GenericRow(i - 1, clock, stream)]

(***************************************************************************)
(* validateApiSource and validateJsonSource                                *)
(***************************************************************************)
\* An element of a JSON array is an object (a row) or a primitive value.
IsObject(element) == "k" \notin DOMAIN element

\* Object.keys of an element; a row lists cat before value.  Of null it
\* throws: see InferSchemaThrows.
JsonKeys(element) ==
  IF IsObject(element)
  THEN SelectSeq(<<"cat", "value">>, LAMBDA key : key \in DOMAIN element)
  ELSE << >>

\* data.some(row => row[key] == null) reads a property of null: the rows are
\* visited in order until one has no value for the key.
SomeThrows(items, key) ==
  \E j \in 1..Len(items) :
    /\ items[j] = Null
    /\ \A i \in 1..(j - 1) : Get(items[i], key).k \notin {"null", "undefined"}

\* inferSchema throws a TypeError: Object.keys(null), or row[key] of null.
InferSchemaThrows(data) ==
  /\ IsArray(data)
  /\ Len(data.items) > 0
  /\ \/ data.items[1] = Null
     \/ \E i \in 1..Len(JsonKeys(data.items[1])) :
          SomeThrows(data.items, JsonKeys(data.items[1])[i])

\* inferSchema of what a fetcher returned: a single object is no array.
InferSchemaOf(data) ==
  IF IsArray(data)
  THEN inferSchema(data.items,
                   IF Len(data.items) = 0 THEN << >> ELSE JsonKeys(data.items[1]))
  ELSE [columns |-> << >>]

Invalid == [isValid |-> FALSE, schema |-> Null, sampleData |-> Null]

\* The try block without its catch: a failure is passed on to the caller.
ValidatedUncaught(fetched) ==
  IF fetched.ok /\ ~InferSchemaThrows(fetched.data)
  THEN [isValid |-> TRUE, schema |-> InferSchemaOf(fetched.data), sampleData |-> fetched.data]
  ELSE [isValid |-> FALSE, schema |-> Null, sampleData |-> Null, thrown |-> fetched.error]

\* The try block of a validator on what its fetcher gave.
Validated(fetched) ==
  IF fetched.ok /\ ~InferSchemaThrows(fetched.data)
  THEN [isValid |-> TRUE, schema |-> InferSchemaOf(fetched.data), sampleData |-> fetched.data]
  ELSE Invalid

validateApiSource(answer) == Validated(fetchApiData(answer, Num(ValidationLimit)))

validateJsonSource(answer) == Validated(fetchJsonData(answer, Num(ValidationLimit)))

\* fetchCsvData on an answer: the rows as the array they are.
FetchCsvAnswer(answer, limit) ==
  IF ~answer.reached THEN Thrown("fetch failed")
  ELSE IF ~IsOk(answer.status) THEN Thrown(StatusMessage("CSV fetch failed", answer))
  ELSE Returned(JsonArray(fetchCsvData(answer.status, answer.text, limit).rows))

\* validateCsvSource on an answer.
ValidateCsvAnswer(answer) ==
  IF ~answer.reached THEN Invalid
  ELSE LET result == validateCsvSource(answer.status, answer.text)
       IN  IF result.isValid
           THEN [isValid |-> TRUE, schema |-> result.schema,
                 sampleData |-> JsonArray(result.sampleData)]
           ELSE Invalid

(***************************************************************************)
(* The handlers of /fetch-data, /preview-data and /validate-source.        *)
(*                                                                         *)
(* world is what a request meets outside the program: the remote server's  *)
(* answer, the clock, the results of Math.random() and the API_KEY of the  *)
(* environment.  A handler gives [response, sent]: the response and the    *)
(* outbound requests it has sent.                                          *)
(***************************************************************************)
Response(status, body) == [status |-> status, body |-> body]

\* The catch of serve.
InternalError == Response(500, [error |-> "Internal server error"])

\* The outbound requests of the fetcher of config.type.
SentFor(config, world) ==
  CASE config.type = "api" -> <<ApiRequest(config, world.apiKey)>>
    [] config.type \in {"csv", "json"} ->
         <<[url |-> config.url, method |-> "GET", headers |-> << >>]>>
    [] OTHER -> << >>

\* The keys of the rows generateStaticData pushes.
StaticKeys(dataType) ==
  CASE dataType = "sales" -> <<"id", "date", "product", "revenue", "quantity", "region">>
    [] dataType = "users" -> <<"id", "name", "email", "signupDate", "status", "plan">>
    [] OTHER -> <<"id", "value", "category", "timestamp">>

\* Object.keys(data[0]) of a non-empty array.
FirstRowKeys(config, data, world) ==
  CASE config.type = "csv" -> CsvRowKeys(world.answer.text)
    [] config.type = "static" -> StaticKeys(DataTypeOf(config))
    [] OTHER -> JsonKeys(data.items[1])

RowCount(data) == IF IsArray(data) THEN Len(data.items) ELSE 1
Columns(config, data, world) ==
  IF IsArray(data) /\ Len(data.items) > 0 THEN FirstRowKeys(config, data, world) ELSE << >>

\* Object.keys(data[0]) throws when the first element is null.
ColumnsThrow(data) == IsArray(data) /\ Len(data.items) > 0 /\ data.items[1] = Null

\* The four known cases of the switch on config.type.
KnownTypes == {"api", "csv", "json", "static"}

Fetched(config, limit, world) ==
  CASE config.type = "api" -> fetchApiData(world.answer, limit)
    [] config.type = "csv" -> FetchCsvAnswer(world.answer, limit)
    [] config.type = "json" -> fetchJsonData(world.answer, limit)
    [] OTHER -> Returned(JsonArray(generateStaticData(config, limit, world.clock, world.stream)))

\* cacheWidgetData as its name has it: the data saved under the widget's id.
cacheWidgetDataSaved(store, widgetId, data) == (widgetId :> data) @@ store

\* cacheWidgetData only logs: the cache is left as it is.
cacheWidgetData(store, widgetId, data) == store

FetchFailure(details) ==
  Response(400, [error |-> "Failed to fetch data", details |-> details])

FetchSuccess(config, data, world) ==
  IF ColumnsThrow(data)
  THEN FetchFailure("Cannot convert undefined or null to object")
  ELSE Response(200, [data |-> data,
                      metadata |-> [rowCount |-> RowCount(data),
                                    columns |-> Columns(config, data, world),
                                    lastUpdated |-> ToISOString(world.clock)]])

\* The response with the rows fetched before the failure kept in it.
FetchFailureWithData(config, fetched, world) ==
  Response(400, [error |-> "Failed to fetch data", details |-> fetched.error,
                 data |-> world.answer.items])

FetchFailureOf(config, fetched, world) == FetchFailure(fetched.error)

handleDataFetch(token, body, world) ==
  IF ~TokenDecodes(token) THEN [response |-> InternalError, sent |-> << >>]
  ELSE IF body.config.type \notin KnownTypes
  THEN [response |-> FetchFailure("Unsupported data source type: " \o body.config.type),
        sent |-> << >>]
  ELSE [response |->
          IF Fetched(body.config, Undefined, world).ok
          THEN FetchSuccess(body.config, Fetched(body.config, Undefined, world).data, world)
          ELSE FetchFailureOf(body.config, Fetched(body.config, Undefined, world), world),
        sent |-> SentFor(body.config, world)]

DefaultPreviewLimit == 10

\* const { config, limit = 10 } = body
PreviewLimit(body) == IF "limit" \in DOMAIN body THEN body.limit ELSE Num(DefaultPreviewLimit)

PreviewFailure(details) ==
  Response(400, [error |-> "Failed to preview data", details |-> details])

PreviewSuccess(config, data, limit, world) ==
  IF ColumnsThrow(data)
  THEN PreviewFailure("Cannot convert undefined or null to object")
  ELSE Response(200, [data |-> data,
                      metadata |-> [rowCount |-> RowCount(data),
                                    columns |-> Columns(config, data, world),
                                    isPreview |-> TRUE,
                                    limit |-> limit]])

\* The default case of the preview's switch: previewData = [].
UnknownPreview(limit) ==
  Response(200, [data |-> JsonArray(<< >>),
                 metadata |-> [rowCount |-> 0, columns |-> << >>, isPreview |-> TRUE,
                               limit |-> limit]])

handleDataPreview(token, body, world) ==
  IF ~TokenDecodes(token) THEN [response |-> InternalError, sent |-> << >>]
  ELSE IF body.config.type \notin KnownTypes
  THEN [response |-> UnknownPreview(PreviewLimit(body)), sent |-> << >>]
  ELSE [response |->
          IF Fetched(body.config, PreviewLimit(body), world).ok
          THEN PreviewSuccess(body.config, Fetched(body.config, PreviewLimit(body), world).data,
                              PreviewLimit(body), world)
          ELSE PreviewFailure(Fetched(body.config, PreviewLimit(body), world).error),
        sent |-> SentFor(body.config, world)]

\* The switch of handleSourceValidation; static is none of its cases.
ValidatedTypes == {"api", "csv", "json"}

ValidationOf(config, world) ==
  CASE config.type = "api" -> validateApiSource(world.answer)
    [] config.type = "csv" -> ValidateCsvAnswer(world.answer)
    [] config.type = "json" -> validateJsonSource(world.answer)
    [] OTHER -> [isValid |-> TRUE, schema |-> [columns |-> << >>],
                 sampleData |-> JsonArray(<< >>)]

ValidationResponse(result) ==
  Response(200, [isValid |-> result.isValid,
                 schema |-> result.schema,
                 sampleData |-> result.sampleData,
                 message |-> IF result.isValid THEN "Data source is valid"
                             ELSE "Data source validation failed"])

handleSourceValidation(token, body, world) ==
  IF ~TokenDecodes(token) THEN [response |-> InternalError, sent |-> << >>]
  ELSE [response |-> ValidationResponse(ValidationOf(body.config, world)),
        sent |-> IF body.config.type \in ValidatedTypes THEN SentFor(body.config, world)
                 ELSE << >>]

(***************************************************************************)
(* Inputs of the data sources.                                             *)
(***************************************************************************)
MaxItems == 6
MaxWorldItems == 2

\* The elements of a JSON array body: two rows and null.
JsonElements == {Row(Str("a"), Num(1)), Row(Str("b"), Null), Null}

Unreachable ==
  [reached |-> FALSE, status |-> 0, statusText |-> "", kind |-> "text", items |-> << >>,
   text |-> ""]
Answer(status, statusText, kind, items, text) ==
  [reached |-> TRUE, status |-> status, statusText |-> statusText, kind |-> kind,
   items |-> items, text |-> text]

FailedAnswers ==
  {Unreachable, Answer(404, "Not Found", "text", << >>, "missing"),
   Answer(500, "Internal Server Error", "text", << >>, "")}
ArrayAnswers(n) == {Answer(200, "OK", "array", items, "") : items \in SeqsUpTo(JsonElements, n)}
ObjectAnswers == {Answer(200, "OK", "object", <<Row(Str("a"), Num(1))>>, "")}
\* A CSV text of a header and n data lines.
LongCsv(n) == CsvText(<<<<"x", "y">>>> \o [i \in 1..n |-> <<DigitString(i), "2">>])
TextAnswers(n) ==
  {Answer(200, "OK", "text", << >>, text) : text \in {"oops"} \cup {LongCsv(k) : k \in 0..n}}

\* The answers a fetcher is tried on, and the fewer a handler is.
Answers == FailedAnswers \cup ArrayAnswers(MaxItems) \cup ObjectAnswers \cup TextAnswers(MaxItems)
WorldAnswers ==
  FailedAnswers \cup ArrayAnswers(MaxWorldItems) \cup ObjectAnswers
    \cup TextAnswers(MaxWorldItems)

\* Date.now(): noon of 2024-12-31, in seconds since the start of 2024.
Clocks == {365 * SecondsPerDay + 43200}
Streams == {<<0, 512, 1016>>, <<1016, 0>>, <<512>>}
ApiKeys == {Undefined, Str("k1")}
Worlds ==
  {[answer |-> a, clock |-> c, stream |-> s, apiKey |-> k] :
     a \in WorldAnswers, c \in Clocks, s \in Streams, k \in ApiKeys}

ApiConfigs ==
  {[type |-> "api", url |-> "https://api.test/rows"],
   [type |-> "api", url |-> "https://api.test/rows", method |-> "POST",
    headers |-> <<<<"Authorization", "Bearer {{API_KEY}}">>>>,
    params |-> <<<<"page", "1">>, <<"q", "x">>>>]}
StaticConfigs ==
  {[type |-> "static"], [type |-> "static", dataType |-> "sales"],
   [type |-> "static", dataType |-> "users"], [type |-> "static", dataType |-> "generic"]}
Configs ==
  ApiConfigs \cup StaticConfigs
    \cup {[type |-> t, url |-> "https://files.test/rows"] : t \in {"csv", "json", "ftp"}}

\* The body of a /fetch-data or /validate-source request, and of a
\* /preview-data request: the limit left out or given.
Bodies == {[dataSourceId |-> "w1", config |-> config] : config \in Configs}
PreviewBodies ==
  {[config |-> config] : config \in Configs}
    \cup {[config |-> config, limit |-> Num(n)] : config \in Configs, n \in 0..MaxLimit}

(***************************************************************************)
(* The data sources called one at a time.                                  *)
(***************************************************************************)
FetchJsonData ==
  /\ op = "idle"
  /\ UNCHANGED server
  /\ \E answer \in Answers, limit \in Limits :
       /\ op' = "fetchJsonData"
       /\ arg' = [answer |-> answer, limit |-> limit]
       /\ out' = fetchJsonData(answer, limit)

FetchApiData ==
  /\ op = "idle"
  /\ UNCHANGED server
  /\ \E config \in ApiConfigs, apiKey \in ApiKeys, answer \in Answers, limit \in Limits :
       /\ op' = "fetchApiData"
       /\ arg' = [config |-> config, apiKey |-> apiKey, answer |-> answer, limit |-> limit,
                  sent |-> ApiRequest(config, apiKey)]
       /\ out' = fetchApiData(answer, limit)

GenerateStaticData ==
  /\ op = "idle"
  /\ UNCHANGED server
  /\ \E config \in StaticConfigs, limit \in Limits, clock \in Clocks, stream \in Streams :
       /\ op' = "generateStaticData"
       /\ arg' = [config |-> config, limit |-> limit, clock |-> clock, stream |-> stream]
       /\ out' = generateStaticData(config, limit, clock, stream)

\* One of the three validators on a remote answer.
ValidateSource ==
  /\ op = "idle"
  /\ UNCHANGED server
  /\ \E type \in ValidatedTypes, answer \in Answers :
       /\ op' = "validateSource"
       /\ arg' = [type |-> type, answer |-> answer]
       /\ out' = CASE type = "api" -> validateApiSource(answer)
                   [] type = "csv" -> ValidateCsvAnswer(answer)
                   [] OTHER -> validateJsonSource(answer)

HandleDataFetch ==
  /\ op = "idle"
  /\ UNCHANGED server
  /\ \E token \in Tokens, body \in Bodies, world \in Worlds :
       /\ op' = "handleDataFetch"
       /\ arg' = [token |-> token, body |-> body, world |-> world]
       /\ out' = handleDataFetch(token, body, world)

HandleDataPreview ==
  /\ op = "idle"
  /\ UNCHANGED server
  /\ \E token \in Tokens, body \in PreviewBodies, world \in Worlds :
       /\ op' = "handleDataPreview"
       /\ arg' = [token |-> token, body |-> body, world |-> world]
       /\ out' = handleDataPreview(token, body, world)

HandleSourceValidation ==
  /\ op = "idle"
  /\ UNCHANGED server
  /\ \E token \in Tokens, body \in Bodies, world \in Worlds :
       /\ op' = "handleSourceValidation"
       /\ arg' = [token |-> token, body |-> body, world |-> world]
       /\ out' = handleSourceValidation(token, body, world)

NextSource ==
  \/ FetchJsonData
  \/ FetchApiData
  \/ GenerateStaticData
  \/ ValidateSource
  \/ HandleDataFetch
  \/ HandleDataPreview
  \/ HandleSourceValidation
  \/ Respond

\* The data sources and the handlers that fetch from them.
SourceSpec == Init /\ [][NextSource]_vars

(***************************************************************************)
(* Properties of the data sources.                                         *)
(***************************************************************************)
\* The fetch or the parse of the body fails: no answer, a status that is
\* not 2xx, or (for api and json) a body that is no JSON.
FetchOrParseFails(type, answer) ==
  \/ ~answer.reached
  \/ answer.status \notin 200..299
  \/ type \in {"api", "json"} /\ answer.kind = "text"

\* What the remote answer holds whole: the elements of the JSON array, or
\* one row per data line of the CSV text.
WholeSample(type, answer) ==
  IF type = "csv" THEN fetchCsvData(200, answer.text, Undefined).rows ELSE answer.items

\* The schema of a sample, by inferSchema.
SchemaOfSample(type, answer, sampleData) ==
  IF type = "csv" THEN inferSchema(sampleData.items, CsvRowKeys(answer.text))
  ELSE InferSchemaOf(sampleData)

\* C12: a validator always returns a value of the three fields isValid,
\* schema and sampleData; when the fetch or the parse fails, or inferring the
\* schema does, the value is {isValid:false, schema:null, sampleData:null};
\* otherwise isValid is true, the sample is the first rows of the answer, at
\* most 5, and the schema is the one inferred from that sample.
C12_ValidationReportsFailureAsData ==
  op = "validateSource"
    => /\ DOMAIN out = {"isValid", "schema", "sampleData"}
       /\ FetchOrParseFails(arg.type, arg.answer) => out = Invalid
       /\ out # Invalid
            => /\ out.isValid
               /\ ~FetchOrParseFails(arg.type, arg.answer)
               /\ out.schema = SchemaOfSample(arg.type, arg.answer, out.sampleData)
               /\ IsArray(out.sampleData)
                    => /\ Len(out.sampleData.items) <= 5
                       /\ out.sampleData.items
                            = SubSeq(WholeSample(arg.type, arg.answer), 1,
                                     Min(5, Len(WholeSample(arg.type, arg.answer))))
               /\ ~IsArray(out.sampleData) => out.sampleData = ParsedBody(arg.answer)
       /\ (~FetchOrParseFails(arg.type, arg.answer)
             /\ \A i \in 1..Len(arg.answer.items) : arg.answer.items[i] # Null)
            => out.isValid

\* An api source answers 200 with an array whose second element is null:
\* inferSchema throws, and the validator reports the failure as data.
C12_Witness ==
  /\ op = "validateSource"
  /\ arg.type = "api"
  /\ arg.answer.status = 200
  /\ arg.answer.kind = "array"
  /\ Len(arg.answer.items) = 6
  /\ arg.answer.items[1] # Null
  /\ arg.answer.items[2] = Null
  /\ out = Invalid

\* The call fetched from a remote server, which answered with a status that
\* is not 2xx.
RemoteRefused(config, world) ==
  /\ config.type \in {"api", "csv", "json"}
  /\ world.answer.reached
  /\ world.answer.status \notin 200..299

\* C13: when the remote server answers an api, csv or json fetch with a
\* non-2xx status, the fetcher throws an error whose message has the status
\* code in it, and the /fetch-data or /preview-data response is the body
\* {error, details}, with the message as details and with no data field.
C13_RefusedFetchReturnsNoData ==
  /\ (op \in {"fetchJsonData", "fetchApiData"}
        /\ arg.answer.reached /\ arg.answer.status \notin 200..299)
       => /\ ~out.ok
          /\ out.data = Null
          /\ Includes(out.error, DigitString(arg.answer.status))
  /\ (op \in {"handleDataFetch", "handleDataPreview"}
        /\ TokenDecodes(arg.token) /\ RemoteRefused(arg.body.config, arg.world))
       => /\ DOMAIN out.response.body = {"error", "details"}
          /\ out.response.status \notin 200..299
          /\ Includes(out.response.body.details, DigitString(arg.world.answer.status))

\* /fetch-data from an api source that answers 404.
C13_Witness ==
  /\ op = "handleDataFetch"
  /\ arg.body.config.type = "api"
  /\ arg.world.answer.status = 404
  /\ Len(out.sent) = 1
  /\ out.response = Response(400, [error |-> "Failed to fetch data",
                                   details |-> "API request failed: 404 Not Found - missing"])

\* C14 (as claimed): when the parsed body is a list and a limit L is given,
\* the api and json fetchers return its first min(L, length) elements in
\* order, for every L given; a single object is returned as it is.
C14_FirstElementsForEveryLimit ==
  (op \in {"fetchJsonData", "fetchApiData"} /\ out.ok)
    => /\ (IsArray(ParsedBody(arg.answer)) /\ arg.limit # Undefined)
            => out.data = JsonArray(SubSeq(arg.answer.items, 1,
                                           Min(arg.limit.n, Len(arg.answer.items))))
       /\ ~IsArray(ParsedBody(arg.answer)) => out.data = ParsedBody(arg.answer)

\* The same for a limit of at least 1: this much the code does.
C14_FirstElementsForPositiveLimit ==
  (op \in {"fetchJsonData", "fetchApiData"} /\ out.ok)
    => /\ (IsArray(ParsedBody(arg.answer)) /\ arg.limit # Undefined /\ arg.limit.n >= 1)
            => out.data = JsonArray(SubSeq(arg.answer.items, 1,
                                           Min(arg.limit.n, Len(arg.answer.items))))
       /\ ~IsArray(ParsedBody(arg.answer)) => out.data = ParsedBody(arg.answer)

\* The rows of a sales data set: exactly the six keys, id running from 1,
\* revenue an integer in [1000, 11000).
IsSalesData(rows) ==
  \A i \in 1..Len(rows) :
    /\ DOMAIN rows[i] = {"id", "date", "product", "revenue", "quantity", "region"}
    /\ rows[i].id = Num(i)
    /\ rows[i].revenue.k = "number"
    /\ rows[i].revenue.d = 1
    /\ rows[i].revenue.n >= 1000
    /\ rows[i].revenue.n < 11000

\* C15 (as claimed): generateStaticData returns exactly L rows for a limit L
\* and exactly 100 rows for none; the rows of dataType sales are sales rows.
C15_StaticRowCount ==
  op = "generateStaticData"
    => /\ Len(out) = IF arg.limit = Undefined THEN 100 ELSE arg.limit.n
       /\ DataTypeOf(arg.config) = "sales" => IsSalesData(out)

\* The same for a limit of at least 1, or none: this much the code does.
C15_StaticRowCountForPositiveLimit ==
  (op = "generateStaticData" /\ (arg.limit = Undefined \/ arg.limit.n >= 1))
    => /\ Len(out) = IF arg.limit = Undefined THEN 100 ELSE arg.limit.n
       /\ DataTypeOf(arg.config) = "sales" => IsSalesData(out)

\* C17 (as claimed): a config whose type is none of api, csv, json and static
\* gets a success response with empty data from /fetch-data and
\* /preview-data, and one with an empty schema from /validate-source.
C17_UnknownKindIsPermissive ==
  (op \in {"handleDataFetch", "handleDataPreview", "handleSourceValidation"}
     /\ TokenDecodes(arg.token) /\ arg.body.config.type \notin KnownTypes)
    => /\ out.response.status = 200
       /\ "error" \notin DOMAIN out.response.body
       /\ op = "handleSourceValidation"
            => /\ out.response.body.isValid
               /\ out.response.body.schema = [columns |-> << >>]
       /\ op # "handleSourceValidation" => out.response.body.data = JsonArray(<< >>)

\* The same of /preview-data and /validate-source: this much the code does.
C17_UnknownKindIsPermissiveOutsideFetch ==
  (op \in {"handleDataPreview", "handleSourceValidation"}
     /\ TokenDecodes(arg.token) /\ arg.body.config.type \notin KnownTypes)
    => /\ out.response.status = 200
       /\ "error" \notin DOMAIN out.response.body
       /\ op = "handleSourceValidation"
            => /\ out.response.body.isValid
               /\ out.response.body.schema = [columns |-> << >>]
       /\ op # "handleSourceValidation" => out.response.body.data = JsonArray(<< >>)

(***************************************************************************)
(* Properties of grouping and sorting.                                     *)
(***************************************************************************)
\* The number of positions at which the row stands in the sequence.
Occurrences(row, rows) == Cardinality({i \in 1..Len(rows) : rows[i] = row})

RECURSIVE SumOfCounts(_)
SumOfCounts(groups) ==
  IF Len(groups) = 0 THEN 0
  ELSE groups[Len(groups)].count + SumOfCounts(SubSeq(groups, 1, Len(groups) - 1))

\* The group rows partition the data: the items of each group are the rows of
\* one key in their input order, so that every input row is in exactly one
\* group; count is the length of items; the counts sum to the number of
\* rows; and the groups have different keys.
IsPartition(groups, data, groupBy) ==
  /\ \A g \in 1..Len(groups) :
       /\ groups[g].count = Len(groups[g].items)
       /\ Len(groups[g].items) > 0
       /\ groups[g].items
            = SelectSeq(data, LAMBDA row : InSeq(row, groups[g].items))
       /\ \A h \in 1..Len(groups) :
            h # g => \A i \in 1..Len(groups[h].items) : ~InSeq(groups[h].items[i], groups[g].items)
  /\ \A i \in 1..Len(data) : \E g \in 1..Len(groups) : InSeq(data[i], groups[g].items)
  /\ SumOfCounts(groups) = Len(data)
  /\ \A g, h \in 1..Len(groups) : groups[g][groupBy] = groups[h][groupBy] => g = h

\* C19 (as claimed): applyGrouping returns group rows that partition its
\* input, whatever the rows.
C19_GroupingPartitionsInput ==
  op \in {"applyGrouping", "applyGroupingThrew"}
    => /\ op = "applyGrouping"
       /\ IsPartition(out, arg.data, arg.groupBy)

\* The same of the calls that return: this much the code does.
C19_GroupingPartitionsInputWhenItReturns ==
  op = "applyGrouping" => IsPartition(out, arg.data, arg.groupBy)

\* The value of a row in the sort column of the call, and whether one value
\* comes strictly before another in the direction of the call.
SortValue(row) == Get(row, arg.sort.column)
Descending == "direction" \in DOMAIN arg.sort /\ arg.sort.direction = "desc"
ComesBefore(a, b) == IF Descending THEN JsLess(b, a) ELSE JsLess(a, b)

IsPermutation(rows, data) ==
  /\ Len(rows) = Len(data)
  /\ \A i \in 1..Len(data) : Occurrences(data[i], rows) = Occurrences(data[i], data)

\* No row stands after a row that its value comes strictly before.
IsOrdered(rows) ==
  \A i, j \in 1..Len(rows) : i < j => ~ComesBefore(SortValue(rows[j]), SortValue(rows[i]))

\* The rows of each value are in the order they have in the data.
KeepsTies(rows, data) ==
  \A i \in 1..Len(data) :
    SelectSeq(rows, LAMBDA row : SortValue(row) = SortValue(data[i]))
      = SelectSeq(data, LAMBDA row : SortValue(row) = SortValue(data[i]))

\* The values of the sort column are all numbers or all strings: of two
\* different ones, one comes before the other.
AllComparable(data) ==
  \/ \A i \in 1..Len(data) : SortValue(data[i]).k = "number"
  \/ \A i \in 1..Len(data) : SortValue(data[i]).k = "string"

\* C20 (as claimed): applySorting returns a permutation of its input that is
\* ordered by the sort column, ascending unless the direction is desc, with
\* the rows of equal values in their input order.
C20_SortedStablePermutation ==
  op = "applySorting"
    => /\ IsPermutation(out, arg.data)
       /\ IsOrdered(out)
       /\ KeepsTies(out, arg.data)

\* The same without the order: a permutation that keeps ties, always.
C20_StablePermutation ==
  op = "applySorting" => IsPermutation(out, arg.data) /\ KeepsTies(out, arg.data)

\* The order too, when the values of the sort column are comparable.
C20_SortedWhenComparable ==
  (op = "applySorting" /\ AllComparable(arg.data)) => IsOrdered(out)

(***************************************************************************)
(* serve of the data processor.                                            *)
(*                                                                         *)
(* A request is [method, path, authorization, body]; authorization is the  *)
(* header's text, or Null when the request has no such header.             *)
(***************************************************************************)
\* String.prototype.startsWith
StartsWith(s, prefix) == Len(s) >= Len(prefix) /\ SubSeq(s, 1, Len(prefix)) = prefix

\* The answer to the CORS preflight.
Preflight == Response(200, Null)
Unauthorized == Response(401, [error |-> "Unauthorized"])
NotFound == Response(404, [error |-> "Not found"])

\* The gate left open: every request is let through to the routes.
IsAuthorizedAlways(request) == TRUE

\* authHeader && authHeader.startsWith('Bearer ')
IsAuthorized(request) ==
  /\ request.authorization # Null
  /\ StartsWith(request.authorization.s, "Bearer ")

\* authHeader.substring(7); a request let through without the header has
\* no token that decodes.
TokenOf(request) ==
  IF request.authorization = Null THEN ""
  ELSE SubSeq(request.authorization.s, 8, Len(request.authorization.s))

\* The route handling of the data processor.
ProcessorRoute(request, world) ==
  CASE StartsWith(request.path, "/fetch-data") ->
         handleDataFetch(TokenOf(request), request.body, world)
    [] StartsWith(request.path, "/transform-data") ->
         [response |-> handleDataTransform(TokenOf(request), request.body.data,
                                           request.body.transformConfig),
          sent |-> << >>]
    [] StartsWith(request.path, "/validate-source") ->
         handleSourceValidation(TokenOf(request), request.body, world)
    [] StartsWith(request.path, "/preview-data") ->
         handleDataPreview(TokenOf(request), request.body, world)
    [] OTHER -> [response |-> NotFound, sent |-> << >>]

\* The handler given to serve: the response, and the requests sent out.
ServeProcessor(request, world) ==
  IF request.method = "OPTIONS" THEN [response |-> Preflight, sent |-> << >>]
  ELSE IF ~IsAuthorized(request) THEN [response |-> Unauthorized, sent |-> << >>]
  ELSE ProcessorRoute(request, world)

(***************************************************************************)
(* The dashboard API (src/functions/dashboard-api/index.ts).               *)
(*                                                                         *)
(* A Map of the storage is the sequence of its <<key, value>> entries in   *)
(* insertion order.  A handler gives [response, storage, database, sent]:  *)
(* the response, the storage and the database as it leaves them, and the   *)
(* queries it has sent to the database.  now is Date.now(), in             *)
(* milliseconds since 2024-01-01T00:00:00.000Z and below 1000.             *)
(***************************************************************************)
\* Map.prototype.set and Map.prototype.delete
MapSet(map, key, value) ==
  IF Has(map, key)
  THEN [i \in 1..Len(map) |-> IF map[i][1] = key THEN <<key, value>> ELSE map[i]]
  ELSE Append(map, <<key, value>>)
MapDelete(map, key) == SelectSeq(map, LAMBDA entry : entry[1] # key)
\* Array.from(map.values())
MapValues(map) == [i \in 1..Len(map) |-> map[i][2]]

ThreeDigits(n) == IF n < 100 THEN "0" \o TwoDigits(n) ELSE DigitString(n)
\* `${Date.now()}` and new Date().toISOString()
DateNow(now) == "1704067200" \o ThreeDigits(now)
NowISOString(now) == "2024-01-01T00:00:00." \o ThreeDigits(now) \o "Z"

\* verifyToken: the user of a token that decodes.
verifyToken(token) == UserOfToken[token]

\* body.key || fallback, where falsy is the falsy value of the property's type
\* ('' for a text, false for a flag, 0 for a number; an object is never falsy).
OrElse(body, key, falsy, fallback) ==
  IF key \in DOMAIN body /\ body[key] # falsy THEN body[key] ELSE fallback

ApiResult(response, store, tables, sent) ==
  [response |-> response, storage |-> store, database |-> tables, sent |-> sent]

\* path.split('/')[n]; '' stands for undefined too.
PathPart(path, n) == IF Len(Split(path, "/")) > n THEN Split(path, "/")[n + 1] ELSE ""

EntityNotFound(what) == Response(404, [error |-> what \o " not found"])
MethodNotAllowed == Response(405, [error |-> "Method not allowed"])

\* !entity || entity.userId !== userId
IsOwned(map, id, userId) == Has(map, id) /\ Field(map, id).userId = userId

\* { ...entity, ...body, id, userId, updatedAt }
Updated(entity, body, id, userId, now) ==
  [id |-> id, userId |-> userId, updatedAt |-> NowISOString(now)] @@ body @@ entity

NewDashboard(body, userId, now) ==
  [id |-> "dash_" \o DateNow(now),
   userId |-> userId,
   name |-> body.name,
   description |-> OrElse(body, "description", "", ""),
   layoutConfig |-> OrElse(body, "layoutConfig", << >>, << >>),
   themeConfig |-> OrElse(body, "themeConfig", << >>, << >>),
   isPublic |-> OrElse(body, "isPublic", FALSE, FALSE),
   createdAt |-> NowISOString(now),
   updatedAt |-> NowISOString(now)]

NewWidget(body, userId, now) ==
  [id |-> "widget_" \o DateNow(now),
   dashboardId |-> body.dashboardId,
   userId |-> userId,
   type |-> body.type,
   title |-> body.title,
   dataSourceId |-> OrElse(body, "dataSourceId", "", Null),
   config |-> OrElse(body, "config", << >>, << >>),
   positionX |-> OrElse(body, "positionX", 0, 0),
   positionY |-> OrElse(body, "positionY", 0, 0),
   width |-> OrElse(body, "width", 0, 4),
   height |-> OrElse(body, "height", 0, 4),
   createdAt |-> NowISOString(now),
   updatedAt |-> NowISOString(now)]

NewTemplate(body, userId, now) ==
  [id |-> "template_" \o DateNow(now),
   userId |-> userId,
   name |-> body.name,
   description |-> OrElse(body, "description", "", ""),
   templateConfig |-> OrElse(body, "templateConfig", << >>, << >>),
   isPublic |-> OrElse(body, "isPublic", FALSE, FALSE),
   category |-> OrElse(body, "category", "", "custom"),
   createdAt |-> NowISOString(now)]

\* The storage with one of its maps replaced.
WithMap(store, name, map) == [store EXCEPT ![name] = map]

\* getX and getXs of a map kept in the storage; a template is also seen when
\* it is public.
ListOf(store, tables, name, userId, query) ==
  ApiResult(
    Response(200, [data |->
      SelectSeq(MapValues(store[name]),
                LAMBDA entity :
                  /\ entity.userId = userId \/ (name = "templates" /\ entity.isPublic)
                  /\ (name = "widgets" /\ "dashboardId" \in DOMAIN query
                        /\ query.dashboardId # "")
                       => entity.dashboardId = query.dashboardId)]),
    store, tables, << >>)

GetOf(store, tables, name, what, id, userId) ==
  IF IsOwned(store[name], id, userId)
       \/ (name = "templates" /\ Has(store[name], id) /\ Field(store[name], id).isPublic)
  THEN ApiResult(Response(200, [data |-> Field(store[name], id)]), store, tables, << >>)
  ELSE ApiResult(EntityNotFound(what), store, tables, << >>)

\* createDashboard, createWidget and createTemplate.
CreateOf(store, tables, name, entity) ==
  ApiResult(Response(201, [data |-> entity]),
            WithMap(store, name, MapSet(store[name], entity.id, entity)), tables, << >>)

\* updateDashboard, updateWidget and updateDataSource.
UpdateOf(store, tables, name, what, id, body, userId, now) ==
  IF IsOwned(store[name], id, userId)
  THEN ApiResult(
         Response(200, [data |-> Updated(Field(store[name], id), body, id, userId, now)]),
         WithMap(store, name,
                 MapSet(store[name], id, Updated(Field(store[name], id), body, id, userId, now))),
         tables, << >>)
  ELSE ApiResult(EntityNotFound(what), store, tables, << >>)

\* deleteDashboard, deleteWidget, deleteTemplate and deleteDataSource.
DeleteOf(store, tables, name, what, id, userId) ==
  IF IsOwned(store[name], id, userId)
  THEN ApiResult(Response(200, [message |-> what \o " deleted successfully"]),
                 WithMap(store, name, MapDelete(store[name], id)), tables, << >>)
  ELSE ApiResult(EntityNotFound(what), store, tables, << >>)

(***************************************************************************)
(* The database behind executeQuery.  A table is the sequence of its rows  *)
(* in insertion order; the id column of a table is its primary key, so an  *)
(* INSERT under an id the table already has is refused and answered with   *)
(* an error body, which executeQuery returns like any other answer.  When  *)
(* the database cannot be reached the fetch is rejected and executeQuery   *)
(* throws.  A handler's queries run as one step.                           *)
(***************************************************************************)
\* JSON.parse(JSON.stringify(value)) of a row: a property whose value is
\* undefined is left out, and NaN is written as null.
Stringified(value) ==
  IF DOMAIN value = DOMAIN Null THEN (IF value.k \in {"nan", "undefined"} THEN Null ELSE value)
  ELSE [key \in {k \in DOMAIN value : value[k].k # "undefined"} |->
          IF value[key].k = "nan" THEN Null ELSE value[key]]

\* SELECT ... FROM table WHERE the row is the user's (and of the data source)
OwnSources(tables, dataSourceId, userId) ==
  SelectSeq(tables.data_sources,
            LAMBDA row : row.id = dataSourceId /\ row.user_id = userId)
OwnRows(tables, dataSourceId, userId) ==
  SelectSeq(tables.data_source_data,
            LAMBDA row : row.data_source_id = dataSourceId /\ row.user_id = userId)

\* ORDER BY column: rows of equal keys stay in insertion order.
Ordered(rows, before(_, _)) ==
  LET rank(i) == 1 + Cardinality({j \in 1..Len(rows) :
                                    \/ before(rows[j], rows[i])
                                    \/ (~before(rows[i], rows[j]) /\ j < i)})
  IN  [place \in 1..Len(rows) |-> rows[CHOOSE i \in 1..Len(rows) : rank(i) = place]]

ByRowIndex(a, b) == a.row_index < b.row_index
ByCreatedAtDesc(a, b) == StrLess(b.created_at, a.created_at)

\* INSERT INTO table
Inserted(table, row) ==
  IF \E i \in 1..Len(table) : table[i].id = row.id THEN table ELSE Append(table, row)

DataSourceOfRow(row) ==
  [id |-> row.id,
   userId |-> row.user_id,
   name |-> row.name,
   type |-> row.type,
   connectionConfig |-> row.connection_config,
   schemaConfig |-> row.schema_config,
   isActive |-> row.is_active = 1,
   createdAt |-> row.created_at,
   updatedAt |-> row.updated_at]

getDataSources(store, tables, userId, world) ==
  IF ~world.dbUp
  THEN ApiResult(Response(500, [error |-> "Failed to fetch data sources"]), store, tables,
                 <<"SELECT data_sources">>)
  ELSE ApiResult(
         Response(200, [data |->
           LET rows == Ordered(SelectSeq(tables.data_sources,
                                         LAMBDA row : row.user_id = userId),
                               ByCreatedAtDesc)
           IN  [i \in 1..Len(rows) |-> DataSourceOfRow(rows[i])]]),
         store, tables, <<"SELECT data_sources">>)

NewDataSourceRow(body, userId, now) ==
  [id |-> "ds_" \o DateNow(now),
   user_id |-> userId,
   name |-> body.name,
   type |-> body.type,
   connection_config |-> OrElse(body, "connectionConfig", << >>, << >>),
   schema_config |-> OrElse(body, "schemaConfig", << >>, << >>),
   is_active |-> IF "isActive" \in DOMAIN body /\ body.isActive = FALSE THEN 0 ELSE 1,
   created_at |-> NowISOString(now),
   updated_at |-> NowISOString(now)]

createDataSource(store, tables, body, userId, world) ==
  IF ~world.dbUp
  THEN ApiResult(Response(500, [error |-> "Failed to create data source"]), store, tables,
                 <<"INSERT data_sources">>)
  ELSE ApiResult(
         Response(201, [data |-> DataSourceOfRow(NewDataSourceRow(body, userId, world.now))]),
         store,
         [tables EXCEPT !.data_sources =
            Inserted(tables.data_sources, NewDataSourceRow(body, userId, world.now))],
         <<"INSERT data_sources">>)

SourceNotFound(store, tables) ==
  ApiResult(EntityNotFound("Data source"), store, tables, <<"SELECT data_sources">>)

DataFailure(store, tables, message) ==
  ApiResult(Response(500, [error |-> message]), store, tables, <<"SELECT data_sources">>)

\* UPDATE data_sources SET updated_at = ? WHERE id = ? AND user_id = ?
Touched(tables, dataSourceId, userId, now) ==
  [tables EXCEPT !.data_sources =
     [i \in 1..Len(tables.data_sources) |->
        IF tables.data_sources[i].id = dataSourceId
             /\ tables.data_sources[i].user_id = userId
        THEN [tables.data_sources[i] EXCEPT !.updated_at = NowISOString(now)]
        ELSE tables.data_sources[i]]]

\* UPDATE data_sources SET schema_config = ?, updated_at = ? WHERE ...
SchemaSet(tables, dataSourceId, userId, now, schema) ==
  [tables EXCEPT !.data_sources =
     [i \in 1..Len(tables.data_sources) |->
        IF tables.data_sources[i].id = dataSourceId
             /\ tables.data_sources[i].user_id = userId
        THEN [tables.data_sources[i] EXCEPT !.schema_config = schema,
                                            !.updated_at = NowISOString(now)]
        ELSE tables.data_sources[i]]]

\* DELETE FROM data_source_data WHERE data_source_id = ? AND user_id = ?
Cleared(tables, dataSourceId, userId) ==
  [tables EXCEPT !.data_source_data =
     SelectSeq(tables.data_source_data,
               LAMBDA row : ~(row.data_source_id = dataSourceId /\ row.user_id = userId))]

ImportedRow(dataSourceId, userId, now, data, index) ==
  [id |-> "row_" \o dataSourceId \o "_" \o DateNow(now) \o "_" \o DigitString(index),
   data_source_id |-> dataSourceId,
   user_id |-> userId,
   row_data |-> Stringified(data[index + 1]),
   row_index |-> index]

RECURSIVE InsertedAll(_, _, _, _, _, _)
InsertedAll(table, dataSourceId, userId, now, data, count) ==
  IF count = 0 THEN table
  ELSE Inserted(InsertedAll(table, dataSourceId, userId, now, data, count - 1),
                ImportedRow(dataSourceId, userId, now, data, count - 1))

Imported(tables, dataSourceId, userId, now, data) ==
  [Cleared(tables, dataSourceId, userId) EXCEPT !.data_source_data =
     InsertedAll(@, dataSourceId, userId, now, data, Len(data))]

importData(store, tables, body, userId, world) ==
  IF ~world.dbUp THEN DataFailure(store, tables, "Failed to import data")
  ELSE IF OwnSources(tables, body.dataSourceId, userId) = << >>
  THEN SourceNotFound(store, tables)
  ELSE IF "data" \notin DOMAIN body
  THEN \* data.map throws once the stored rows have been deleted
       ApiResult(Response(500, [error |-> "Failed to import data"]), store,
                 Cleared(tables, body.dataSourceId, userId),
                 <<"SELECT data_sources", "DELETE data_source_data">>)
  ELSE ApiResult(
         Response(200, [data |-> [message |-> "Data imported successfully",
                                  rowCount |-> Len(body.data),
                                  dataSourceId |-> body.dataSourceId]]),
         store,
         IF "schema" \in DOMAIN body
         THEN SchemaSet(Imported(tables, body.dataSourceId, userId, world.now, body.data),
                        body.dataSourceId, userId, world.now, body.schema)
         ELSE Imported(tables, body.dataSourceId, userId, world.now, body.data),
         <<"SELECT data_sources", "DELETE data_source_data">>
           \o [i \in 1..Len(body.data) |-> "INSERT data_source_data"]
           \o (IF "schema" \in DOMAIN body THEN <<"UPDATE data_sources">> ELSE << >>))

StoredRows(tables, dataSourceId, userId) ==
  LET rows == Ordered(OwnRows(tables, dataSourceId, userId), ByRowIndex)
  IN  [i \in 1..Len(rows) |-> rows[i].row_data]

getDataSourceData(store, tables, dataSourceId, userId, world) ==
  IF ~world.dbUp THEN DataFailure(store, tables, "Failed to fetch data")
  ELSE IF OwnSources(tables, dataSourceId, userId) = << >>
  THEN SourceNotFound(store, tables)
  ELSE ApiResult(
         Response(200, [data |->
           [rows |-> StoredRows(tables, dataSourceId, userId),
            schema |-> OwnSources(tables, dataSourceId, userId)[1].schema_config,
            metadata |-> [rowCount |-> Len(StoredRows(tables, dataSourceId, userId)),
                          dataSourceId |-> dataSourceId,
                          lastUpdated |->
                            OwnSources(tables, dataSourceId, userId)[1].updated_at]]]),
         store, tables, <<"SELECT data_sources", "SELECT data_source_data">>)

\* UPDATE data_source_data SET row_data = ? WHERE ... AND row_index = ?
RowUpdated(tables, dataSourceId, userId, rowIndex, rowData) ==
  [tables EXCEPT !.data_source_data =
     [i \in 1..Len(tables.data_source_data) |->
        IF /\ tables.data_source_data[i].data_source_id = dataSourceId
           /\ tables.data_source_data[i].user_id = userId
           /\ tables.data_source_data[i].row_index = rowIndex
        THEN [tables.data_source_data[i] EXCEPT !.row_data = Stringified(rowData)]
        ELSE tables.data_source_data[i]]]

updateDataSourceData(store, tables, dataSourceId, body, userId, world) ==
  IF ~world.dbUp THEN DataFailure(store, tables, "Failed to update data")
  ELSE IF OwnSources(tables, dataSourceId, userId) = << >>
  THEN SourceNotFound(store, tables)
  ELSE ApiResult(
         Response(200, [data |-> [message |-> "Row updated successfully"]]),
         store,
         Touched(RowUpdated(tables, dataSourceId, userId, body.rowIndex, body.rowData),
                 dataSourceId, userId, world.now),
         <<"SELECT data_sources", "UPDATE data_source_data", "UPDATE data_sources">>)

clearDataSourceData(store, tables, dataSourceId, userId, world) ==
  IF ~world.dbUp THEN DataFailure(store, tables, "Failed to clear data")
  ELSE IF OwnSources(tables, dataSourceId, userId) = << >>
  THEN SourceNotFound(store, tables)
  ELSE ApiResult(
         Response(200, [data |-> [message |-> "Data cleared successfully"]]),
         store,
         Touched(Cleared(tables, dataSourceId, userId), dataSourceId, userId, world.now),
         <<"SELECT data_sources", "DELETE data_source_data", "UPDATE data_sources">>)

\* The filters fetchDataSourceData applies to the rows the database returned.
StoredFilterMatches(row, filter) ==
  CASE filter.operator = "equals" -> Get(row, filter.column) = filter.value
    [] filter.operator = "contains" ->
         Includes(ToLowerCase(StringOf(Get(row, filter.column))),
                  ToLowerCase(StringOf(filter.value)))
    [] filter.operator = "greater_than" ->
         NumLess(ToNumber(filter.value), ToNumber(Get(row, filter.column)))
    [] filter.operator = "less_than" ->
         NumLess(ToNumber(Get(row, filter.column)), ToNumber(filter.value))
    [] OTHER -> TRUE

\* ... ORDER BY row_index LIMIT ? OFFSET ?: the limit is sent when it is
\* truthy and the offset when both are.
PageOfRows(rows, body) ==
  IF OrElse(body, "limit", 0, 0) = 0 THEN rows
  ELSE SubSeq(rows, OrElse(body, "offset", 0, 0) + 1,
              Min(Len(rows), OrElse(body, "offset", 0, 0) + body.limit))

\* { totalRows, filteredRows, hasMore: limit && data.length === limit }; a
\* hasMore that is undefined is left out of the body.
FetchMetadata(rows, body) ==
  LET counts == [totalRows |-> Len(rows),
                 filteredRows |->
                   Len(SelectSeq(rows, LAMBDA row :
                         \A i \in 1..Len(OrElse(body, "filters", << >>, << >>)) :
                           StoredFilterMatches(row, body.filters[i])))]
  IN  IF "limit" \notin DOMAIN body THEN counts
      ELSE [hasMore |-> IF body.limit = 0 THEN 0 ELSE Len(rows) = body.limit] @@ counts

fetchDataSourceData(store, tables, dataSourceId, body, userId, world) ==
  IF ~world.dbUp THEN DataFailure(store, tables, "Failed to fetch data")
  ELSE IF OwnSources(tables, dataSourceId, userId) = << >>
  THEN SourceNotFound(store, tables)
  ELSE ApiResult(
         Response(200, [data |->
           [rows |-> SelectSeq(PageOfRows(StoredRows(tables, dataSourceId, userId), body),
                               LAMBDA row :
                                 \A i \in 1..Len(OrElse(body, "filters", << >>, << >>)) :
                                   StoredFilterMatches(row, body.filters[i])),
            metadata |-> FetchMetadata(PageOfRows(StoredRows(tables, dataSourceId, userId), body),
                                       body)]]),
         store, tables, <<"SELECT data_sources", "SELECT data_source_data">>)

(***************************************************************************)
(* The routes of the dashboard API.  A request is [method, path,           *)
(* authorization, query, body]; a body of Null is one req.json() cannot    *)
(* read.  world is [now, dbUp].                                            *)
(***************************************************************************)
Unchanged(response, store, tables) == ApiResult(response, store, tables, << >>)

\* verifyToken or req.json() throws: the server's catch answers.
Throws(request, token, readsBody) ==
  ~TokenDecodes(token) \/ (readsBody /\ request.body = Null)

handleDashboards(store, tables, request, token, world) ==
  CASE request.method = "GET" ->
         IF Throws(request, token, FALSE) THEN Unchanged(InternalError, store, tables)
         ELSE IF PathPart(request.path, 2) # ""
         THEN GetOf(store, tables, "dashboards", "Dashboard", PathPart(request.path, 2),
                    verifyToken(token))
         ELSE ListOf(store, tables, "dashboards", verifyToken(token), request.query)
    [] request.method = "POST" ->
         IF Throws(request, token, TRUE) THEN Unchanged(InternalError, store, tables)
         ELSE CreateOf(store, tables, "dashboards",
                       NewDashboard(request.body, verifyToken(token), world.now))
    [] request.method = "PUT" ->
         IF Throws(request, token, TRUE) THEN Unchanged(InternalError, store, tables)
         ELSE UpdateOf(store, tables, "dashboards", "Dashboard", PathPart(request.path, 2),
                       request.body, verifyToken(token), world.now)
    [] request.method = "DELETE" ->
         IF Throws(request, token, FALSE) THEN Unchanged(InternalError, store, tables)
         ELSE DeleteOf(store, tables, "dashboards", "Dashboard", PathPart(request.path, 2),
                       verifyToken(token))
    [] OTHER -> Unchanged(MethodNotAllowed, store, tables)

handleDataSources(store, tables, request, token, world) ==
  CASE request.method = "GET" ->
         IF Throws(request, token, FALSE) THEN Unchanged(InternalError, store, tables)
         ELSE IF PathPart(request.path, 2) # ""
         THEN GetOf(store, tables, "dataSources", "Data source", PathPart(request.path, 2),
                    verifyToken(token))
         ELSE getDataSources(store, tables, verifyToken(token), world)
    [] request.method = "POST" ->
         IF Throws(request, token, TRUE) THEN Unchanged(InternalError, store, tables)
         ELSE createDataSource(store, tables, request.body, verifyToken(token), world)
    [] request.method = "PUT" ->
         IF Throws(request, token, TRUE) THEN Unchanged(InternalError, store, tables)
         ELSE UpdateOf(store, tables, "dataSources", "Data source",
                       PathPart(request.path, 2), request.body, verifyToken(token), world.now)
    [] request.method = "DELETE" ->
         IF Throws(request, token, FALSE) THEN Unchanged(InternalError, store, tables)
         ELSE DeleteOf(store, tables, "dataSources", "Data source",
                       PathPart(request.path, 2), verifyToken(token))
    [] OTHER -> Unchanged(MethodNotAllowed, store, tables)

handleWidgets(store, tables, request, token, world) ==
  CASE request.method = "GET" ->
         IF Throws(request, token, FALSE) THEN Unchanged(InternalError, store, tables)
         ELSE IF PathPart(request.path, 2) # ""
         THEN GetOf(store, tables, "widgets", "Widget", PathPart(request.path, 2),
                    verifyToken(token))
         ELSE ListOf(store, tables, "widgets", verifyToken(token), request.query)
    [] request.method = "POST" ->
         IF Throws(request, token, TRUE) THEN Unchanged(InternalError, store, tables)
         ELSE CreateOf(store, tables, "widgets",
                       NewWidget(request.body, verifyToken(token), world.now))
    [] request.method = "PUT" ->
         IF Throws(request, token, TRUE) THEN Unchanged(InternalError, store, tables)
         ELSE UpdateOf(store, tables, "widgets", "Widget", PathPart(request.path, 2),
                       request.body, verifyToken(token), world.now)
    [] request.method = "DELETE" ->
         IF Throws(request, token, FALSE) THEN Unchanged(InternalError, store, tables)
         ELSE DeleteOf(store, tables, "widgets", "Widget", PathPart(request.path, 2),
                       verifyToken(token))
    [] OTHER -> Unchanged(MethodNotAllowed, store, tables)

handleTemplates(store, tables, request, token, world) ==
  CASE request.method = "GET" ->
         IF Throws(request, token, FALSE) THEN Unchanged(InternalError, store, tables)
         ELSE IF PathPart(request.path, 2) # ""
         THEN GetOf(store, tables, "templates", "Template", PathPart(request.path, 2),
                    verifyToken(token))
         ELSE ListOf(store, tables, "templates", verifyToken(token), request.query)
    [] request.method = "POST" ->
         IF Throws(request, token, TRUE) THEN Unchanged(InternalError, store, tables)
         ELSE CreateOf(store, tables, "templates",
                       NewTemplate(request.body, verifyToken(token), world.now))
    [] request.method = "DELETE" ->
         IF Throws(request, token, FALSE) THEN Unchanged(InternalError, store, tables)
         ELSE DeleteOf(store, tables, "templates", "Template", PathPart(request.path, 2),
                       verifyToken(token))
    [] OTHER -> Unchanged(MethodNotAllowed, store, tables)

InvalidOperation == Response(400, [error |-> "Invalid data operation"])

handleData(store, tables, request, token, world) ==
  CASE request.method = "POST" /\ PathPart(request.path, 2) = "import" ->
         IF Throws(request, token, TRUE) THEN Unchanged(InternalError, store, tables)
         ELSE importData(store, tables, request.body, verifyToken(token), world)
    [] request.method = "POST" /\ PathPart(request.path, 2) = "fetch"
         /\ PathPart(request.path, 3) # "" ->
         IF Throws(request, token, TRUE) THEN Unchanged(InternalError, store, tables)
         ELSE fetchDataSourceData(store, tables, PathPart(request.path, 3), request.body,
                                  verifyToken(token), world)
    [] request.method = "GET" /\ PathPart(request.path, 2) = "fetch"
         /\ PathPart(request.path, 3) # "" ->
         IF Throws(request, token, FALSE) THEN Unchanged(InternalError, store, tables)
         ELSE getDataSourceData(store, tables, PathPart(request.path, 3),
                                verifyToken(token), world)
    [] request.method = "PUT" /\ PathPart(request.path, 2) = "update"
         /\ PathPart(request.path, 3) # "" ->
         IF Throws(request, token, TRUE) THEN Unchanged(InternalError, store, tables)
         ELSE updateDataSourceData(store, tables, PathPart(request.path, 3), request.body,
                                   verifyToken(token), world)
    [] request.method = "DELETE" /\ PathPart(request.path, 2) = "clear"
         /\ PathPart(request.path, 3) # "" ->
         IF Throws(request, token, FALSE) THEN Unchanged(InternalError, store, tables)
         ELSE clearDataSourceData(store, tables, PathPart(request.path, 3),
                                  verifyToken(token), world)
    [] request.method \notin {"POST", "GET", "PUT", "DELETE"} ->
         Unchanged(MethodNotAllowed, store, tables)
    [] OTHER -> Unchanged(InvalidOperation, store, tables)

ApiRoute(store, tables, request, world) ==
  IF StartsWith(request.path, "/dashboards")
  THEN handleDashboards(store, tables, request, TokenOf(request), world)
  ELSE IF StartsWith(request.path, "/data-sources")
  THEN handleDataSources(store, tables, request, TokenOf(request), world)
  ELSE IF StartsWith(request.path, "/widgets")
  THEN handleWidgets(store, tables, request, TokenOf(request), world)
  ELSE IF StartsWith(request.path, "/templates")
  THEN handleTemplates(store, tables, request, TokenOf(request), world)
  ELSE IF StartsWith(request.path, "/data")
  THEN handleData(store, tables, request, TokenOf(request), world)
  ELSE Unchanged(NotFound, store, tables)

\* serve of the dashboard API
ServeApi(store, tables, request, world) ==
  IF request.method = "OPTIONS" THEN Unchanged(Preflight, store, tables)
  ELSE IF ~IsAuthorized(request) THEN Unchanged(Unauthorized, store, tables)
  ELSE ApiRoute(store, tables, request, world)

(***************************************************************************)
(* Requests served one at a time by the two servers.                      *)
(***************************************************************************)
MaxStored == 2

Request(method, path, authorization, query, body) ==
  [method |-> method, path |-> path, authorization |-> authorization, query |-> query,
   body |-> body]

\* The Authorization header: missing, empty, of another scheme, in lower
\* case, and a bearer token that decodes or does not.
Authorizations ==
  {Null, Str(""), Str("Basic dXNlcjpwdw=="), Str("bearer header.payload.signature"),
   Str("Bearer header.payload.signature"), Str("Bearer garbage")}

\* What a request to the data processor meets: the remote source down or
\* answering one row.
ServeWorlds ==
  {[answer |-> a, clock |-> 365 * SecondsPerDay + 43200, stream |-> <<512>>,
    apiKey |-> Undefined] :
     a \in {Unreachable, Answer(200, "OK", "array", <<Row(Str("a"), Num(1))>>, "")}}

SourceBodies ==
  {[dataSourceId |-> "w1", config |-> [type |-> "json", url |-> "https://files.test/rows"]],
   [dataSourceId |-> "w1", config |-> [type |-> "static", dataType |-> "users"]]}
TransformBodies ==
  {[data |-> <<Row(Str("a"), Num(1)), Row(Str("b"), Num(3))>>,
    transformConfig |-> <<<<"sort", [column |-> "value", direction |-> "desc"]>>>>]}

ProcessorRequests ==
  {Request(m, p, a, << >>, b) :
     m \in {"POST"}, p \in {"/fetch-data", "/validate-source", "/preview-data"},
     a \in Authorizations, b \in SourceBodies}
    \cup {Request("POST", "/transform-data", a, << >>, b) :
            a \in Authorizations, b \in TransformBodies}
    \cup {Request(m, "/nowhere", a, << >>, Null) :
            m \in {"GET", "OPTIONS"}, a \in Authorizations}
    \cup {Request("OPTIONS", "/fetch-data", Null, << >>, Null)}

\* What a request to the dashboard API meets.
ApiWorlds == {[now |-> n, dbUp |-> up] : n \in {0, 1}, up \in BOOLEAN}

\* The ids the first millisecond gives.
StoredIds ==
  [dashboards |-> "dash_" \o DateNow(0), widgets |-> "widget_" \o DateNow(0),
   templates |-> "template_" \o DateNow(0), sources |-> "ds_" \o DateNow(0)]

CreateBodies ==
  [dashboards |-> [name |-> "Sales"],
   widgets |-> [dashboardId |-> StoredIds.dashboards, type |-> "chart", title |-> "Revenue"],
   templates |-> [name |-> "Starter", isPublic |-> TRUE],
   sources |-> [name |-> "Orders", type |-> "csv"]]
\* An update that also names another id and another user.
UpdateBody == [name |-> "Renamed", id |-> "other", userId |-> "user_2"]

CollectionPaths ==
  [dashboards |-> "/dashboards", widgets |-> "/widgets", templates |-> "/templates",
   sources |-> "/data-sources"]

CollectionRequests(a) ==
  UNION {
    {Request("POST", CollectionPaths[c], a, << >>, CreateBodies[c]),
     Request("POST", CollectionPaths[c], a, << >>, Null),
     Request("GET", CollectionPaths[c], a, << >>, Null),
     Request("GET", CollectionPaths[c] \o "/" \o StoredIds[c], a, << >>, Null),
     Request("PUT", CollectionPaths[c] \o "/" \o StoredIds[c], a, << >>, UpdateBody),
     Request("DELETE", CollectionPaths[c] \o "/" \o StoredIds[c], a, << >>, Null),
     Request("PATCH", CollectionPaths[c], a, << >>, Null)} : c \in DOMAIN CollectionPaths}
    \cup {Request("GET", "/widgets", a, [dashboardId |-> StoredIds.dashboards], Null)}

DataRequests(a) ==
  {Request("POST", "/data/import", a, << >>,
           [dataSourceId |-> StoredIds.sources, data |-> <<Row(Str("a"), Num(1))>>]),
   Request("POST", "/data/import", a, << >>,
           [dataSourceId |-> StoredIds.sources, data |-> <<Row(Str("b"), Undefined)>>,
            schema |-> <<<<"columns", "cat">>>>]),
   Request("POST", "/data/import", a, << >>, [dataSourceId |-> StoredIds.sources]),
   Request("GET", "/data/fetch/" \o StoredIds.sources, a, << >>, Null),
   Request("POST", "/data/fetch/" \o StoredIds.sources, a, << >>,
           [limit |-> 1, filters |-> <<Filter("cat", "equals", Str("a"))>>]),
   Request("PUT", "/data/update/" \o StoredIds.sources, a, << >>,
           [rowIndex |-> 0, rowData |-> Row(Str("c"), Num(2))]),
   Request("DELETE", "/data/clear/" \o StoredIds.sources, a, << >>, Null),
   Request("GET", "/data/export", a, << >>, Null),
   Request("PATCH", "/data/fetch", a, << >>, Null),
   Request("GET", "/nowhere", a, << >>, Null),
   Request("OPTIONS", "/dashboards", a, << >>, Null)}

ApiRequests == UNION {CollectionRequests(a) \cup DataRequests(a) : a \in Authorizations}

\* The entities and rows kept, in the storage and in the database.
StoredCount(store, tables) ==
  Len(store.dashboards) + Len(store.widgets) + Len(store.templates)
    + Len(store.dataSources) + Len(tables.data_sources) + Len(tables.data_source_data)

HandleProcessorRequest ==
  /\ op = "idle"
  /\ UNCHANGED server
  /\ \E request \in ProcessorRequests, world \in ServeWorlds :
       /\ op' = "serveProcessor"
       /\ arg' = request
       /\ out' = ServeProcessor(request, world)

HandleApiRequest ==
  /\ op = "idle"
  /\ UNCHANGED <<inflight, cache, ui>>
  /\ \E request \in ApiRequests, world \in ApiWorlds :
       /\ StoredCount(ServeApi(storage, database, request, world).storage,
                      ServeApi(storage, database, request, world).database) <= MaxStored
       /\ op' = "serveApi"
       /\ arg' = request
       /\ out' = [response |-> ServeApi(storage, database, request, world).response,
                  sent |-> ServeApi(storage, database, request, world).sent]
       /\ storage' = ServeApi(storage, database, request, world).storage
       /\ database' = ServeApi(storage, database, request, world).database

NextServe ==
  \/ HandleProcessorRequest
  \/ HandleApiRequest
  \/ Respond

\* The two servers, a request at a time.
ServeSpec == Init /\ [][NextServe]_vars

\* C16: a request other than OPTIONS whose Authorization header is missing or
\* does not start with 'Bearer ' is answered 401 by either server, sends no
\* request out and leaves every stored dashboard, widget, template and data
\* source as it was.
LacksBearer(request) ==
  /\ request.method # "OPTIONS"
  /\ \/ request.authorization = Null
     \/ ~StartsWith(request.authorization.s, "Bearer ")
C16_UnauthorizedReachesNoHandler ==
  [][(op' \in {"serveProcessor", "serveApi"} /\ LacksBearer(arg'))
       => /\ out'.response = Response(401, [error |-> "Unauthorized"])
          /\ out'.sent = << >>
          /\ storage' = storage
          /\ database' = database]_vars
\* An unauthorized DELETE of a stored dashboard has been answered, and the
\* dashboard is still there.
C16_Witness ==
  /\ op = "serveApi"
  /\ LacksBearer(arg)
  /\ arg.method = "DELETE"
  /\ arg.path = "/dashboards/" \o StoredIds.dashboards
  /\ Has(storage.dashboards, StoredIds.dashboards)
  /\ Len(database.data_sources) > 0

(***************************************************************************)
(* Requests to the data processor handled concurrently.  A handler runs    *)
(* until it awaits the answer of the remote source and goes on when the    *)
(* answer is there; handlers of other requests run in between.  inflight   *)
(* holds the requests being handled, in the order they came; cache is the  *)
(* one store the handlers share.                                           *)
(***************************************************************************)
MaxRequests == 2

\* The readings a handler takes of what is around it: the remote answer, the
\* clock, the random numbers and the API_KEY of the environment.
Readings(answer, stream) ==
  [answer |-> answer, clock |-> 365 * SecondsPerDay + 43200, stream |-> stream,
   apiKey |-> Undefined]

ConcurrentAnswers == {Unreachable, Answer(200, "OK", "array", <<Row(Str("a"), Num(1))>>, "")}
ConcurrentStreams == {<<512>>, <<0, 1016>>}

Bearer == Str("Bearer header.payload.signature")
\* A fetch with and without its Authorization header, a preview of two
\* generated rows, two validations and a transformation.
RemoteBody == [dataSourceId |-> "w1", config |-> [type |-> "json", url |-> "https://files.test/rows"]]
StaticBody == [config |-> [type |-> "static", dataType |-> "users"], limit |-> Num(2)]
ConcurrentRequests ==
  {Request("POST", "/fetch-data", a, << >>, RemoteBody) : a \in {Bearer, Null}}
    \cup {Request("POST", p, Bearer, << >>, StaticBody) :
            p \in {"/preview-data", "/validate-source"}}
    \cup {Request("POST", "/validate-source", Bearer, << >>, RemoteBody)}
    \cup {Request("POST", "/transform-data", Bearer, << >>, b) : b \in TransformBodies}

\* The requests the handler sends out before it awaits: they do not depend
\* on the answer.
SentBy(request) == ServeProcessor(request, Readings(Unreachable, <<0>>)).sent

\* handleDataFetch calls cacheWidgetData once the fetcher has returned.
CacheAfter(store, request, world) ==
  IF /\ request.method # "OPTIONS"
     /\ IsAuthorized(request)
     /\ StartsWith(request.path, "/fetch-data")
     /\ TokenDecodes(TokenOf(request))
     /\ request.body.config.type \in KnownTypes
     /\ Fetched(request.body.config, Undefined, world).ok
  THEN cacheWidgetData(store, request.body.dataSourceId,
                       Fetched(request.body.config, Undefined, world).data)
  ELSE store

Handling(pc, request, world, response) ==
  [pc |-> pc, request |-> request, world |-> world, response |-> response]

\* serve is called with a request.
Receive ==
  /\ Len(inflight) < MaxRequests
  /\ \E request \in ConcurrentRequests :
       inflight' = Append(inflight, Handling("received", request, Null, Null))
  /\ UNCHANGED <<op, arg, out, storage, database, cache, ui>>

\* The handler runs up to its await of the remote source.
Start ==
  /\ \E s \in 1..Len(inflight) :
       /\ inflight[s].pc = "received"
       /\ SentBy(inflight[s].request) # << >>
       /\ inflight' = [inflight EXCEPT ![s].pc = "fetching"]
  /\ UNCHANGED <<op, arg, out, storage, database, cache, ui>>

\* The handler of a request that awaits no remote source runs to its end.
Finish ==
  /\ \E s \in 1..Len(inflight), stream \in ConcurrentStreams :
       /\ inflight[s].pc = "received"
       /\ SentBy(inflight[s].request) = << >>
       /\ inflight' =
            [inflight EXCEPT ![s] =
               Handling("done", @.request, Readings(Unreachable, stream),
                        ServeProcessor(@.request, Readings(Unreachable, stream)).response)]
       /\ cache' = CacheAfter(cache, inflight[s].request, Readings(Unreachable, stream))
  /\ UNCHANGED <<op, arg, out, storage, database, ui>>

\* The remote source answers, or cannot be reached, and the handler runs to
\* its end.
Resume ==
  /\ \E s \in 1..Len(inflight), answer \in ConcurrentAnswers, stream \in ConcurrentStreams :
       /\ inflight[s].pc = "fetching"
       /\ inflight' =
            [inflight EXCEPT ![s] =
               Handling("done", @.request, Readings(answer, stream),
                        ServeProcessor(@.request, Readings(answer, stream)).response)]
       /\ cache' = CacheAfter(cache, inflight[s].request, Readings(answer, stream))
  /\ UNCHANGED <<op, arg, out, storage, database, ui>>

\* The response is sent and the request is over.
Reply ==
  /\ \E s \in 1..Len(inflight) :
       /\ inflight[s].pc = "done"
       /\ inflight' = SubSeq(inflight, 1, s - 1) \o SubSeq(inflight, s + 1, Len(inflight))
  /\ UNCHANGED <<op, arg, out, storage, database, cache, ui>>

NextConcurrent ==
  \/ Receive
  \/ Start
  \/ Finish
  \/ Resume
  \/ Reply

\* The data processor with several requests in flight.
ConcurrentSpec == Init /\ [][NextConcurrent]_vars

Done == {s \in 1..Len(inflight) : inflight[s].pc = "done"}

\* C18 as stated: the response of a request is decided by its body and its
\* remote answer (two requests alike in these are answered alike), and no
\* request writes state another could read.
C18_ResponseOfBodyAndAnswerAlone ==
  /\ cache = << >>
  /\ \A s, t \in Done :
       (/\ inflight[s].request = inflight[t].request
        /\ inflight[s].world.answer = inflight[t].world.answer)
         => inflight[s].response = inflight[t].response
\* C18 (amended): whatever the interleaving, the response of a request is what
\* its handler alone makes of the request, its remote answer and its own
\* readings of the clock and of the random numbers; two requests alike in all
\* of these are answered alike; and the handlers write nothing to the cache.
C18_ResponseOfOwnInputsAlone ==
  /\ cache = << >>
  /\ \A s \in Done :
       inflight[s].response = ServeProcessor(inflight[s].request, inflight[s].world).response
  /\ \A s, t \in Done :
       (/\ inflight[s].request = inflight[t].request
        /\ inflight[s].world = inflight[t].world)
         => inflight[s].response = inflight[t].response
\* A fetch has been answered 200 while an earlier request still awaits its
\* remote source: the two were in flight together.
C18_Witness ==
  /\ Len(inflight) = 2
  /\ inflight[1].pc = "fetching"
  /\ inflight[2].pc = "done"
  /\ StartsWith(inflight[2].request.path, "/fetch-data")
  /\ inflight[2].response.status = 200
  /\ inflight[2].world.answer.reached

(***************************************************************************)
(* Filters with numeric operators.                                         *)
(***************************************************************************)
NumericOperators == {"greater_than", "less_than", "greater_equal", "less_equal"}

\* A value that is no number: missing, null, a boolean, the empty string or a
\* text that does not read as a number.
IsNonNumeric(v) ==
  \/ v.k \in {"undefined", "null", "boolean", "nan"}
  \/ v.k = "string" /\ (v.s = "" \/ IsNaN(StringToNumber(v.s)))

\* The rows of data whose value in the column of some numeric filter is no
\* number.
NonNumericKept(data, filters) ==
  {i \in 1..Len(data) :
     \E j \in 1..Len(filters) :
       /\ filters[j].operator \in NumericOperators
       /\ IsNonNumeric(Get(data[i], filters[j].column))}

\* C21: a filter with a numeric operator never keeps a row whose value in the
\* target column is not numeric (missing, null, empty string, boolean or
\* non-numeric text), whatever the comparison value.
C21_NumericFilterDropsNonNumeric ==
  op = "applyFilters" => NonNumericKept(out, arg.filters) = {}
\* This much the code does: a row whose value converts to NaN (missing, or a
\* text that is no number) is never kept by a numeric filter.
C21_NumericFilterDropsNaN ==
  op = "applyFilters" =>
    \A i \in 1..Len(out), j \in 1..Len(arg.filters) :
      arg.filters[j].operator \in NumericOperators
        => ~IsNaN(ToNumber(Get(out[i], arg.filters[j].column)))

(***************************************************************************)
(* Pages out of range.                                                     *)
(***************************************************************************)
\* C22: applyPagination returns the empty sequence for every page number
\* outside 1..ceil(N/pageSize), page 0 and negative pages included, for every
\* dataset size N and every pageSize >= 1.
C22_OutOfRangePageIsEmpty ==
  (/\ op = "applyPagination"
   /\ PageSizeOf(arg.pagination) >= 1
   /\ PageOf(arg.pagination)
        \notin 1..PageCount(Len(arg.data), PageSizeOf(arg.pagination)))
    => out = << >>
\* This much the code does: page 0 and every page after the last are empty.
C22_PageZeroAndPagesPastTheLastAreEmpty ==
  (/\ op = "applyPagination"
   /\ PageSizeOf(arg.pagination) >= 1
   /\ \/ PageOf(arg.pagination) = 0
      \/ PageOf(arg.pagination) > PageCount(Len(arg.data), PageSizeOf(arg.pagination)))
    => out = << >>

(***************************************************************************)
(* Aggregation followed by grouping.                                       *)
(***************************************************************************)
\* The config names aggregations and a grouping column.
AggregatesAndGroups(transformConfig) ==
  /\ Has(transformConfig, "aggregations")
  /\ Has(transformConfig, "groupBy")
  /\ Field(transformConfig, "groupBy") # ""

\* The summary applyAggregations makes of the filtered and sorted rows.
SummaryOf(data, transformConfig) ==
  applyAggregations(SortStage(FilterStage(data, transformConfig), transformConfig),
                    Field(transformConfig, "aggregations"))

\* C23: when a transformConfig gives both aggregations and groupBy, the
\* grouping stage receives the single summary row of the aggregation: the
\* output before pagination is exactly one group row with count 1 whose items
\* is the one-element list holding that summary row.
C23_SummaryRowIsGrouped ==
  (/\ op = "handleDataTransform"
   /\ TokenDecodes(arg.token)
   /\ AggregatesAndGroups(arg.transformConfig))
    => /\ Len(SummaryOf(arg.data, arg.transformConfig)) = 1
       /\ out.status = 200
       /\ out.body.data =
            PaginateStage(
              <<[items |-> SummaryOf(arg.data, arg.transformConfig), count |-> 1]
                  @@ (Field(arg.transformConfig, "groupBy") :>
                        GroupKey(SummaryOf(arg.data, arg.transformConfig)[1],
                                 Field(arg.transformConfig, "groupBy")))>>,
              arg.transformConfig)
\* Two rows summed and then grouped by a column the summary does not have.
C23_Witness ==
  /\ op = "handleDataTransform"
  /\ TokenDecodes(arg.token)
  /\ Len(arg.data) = 2
  /\ Has(arg.transformConfig, "aggregations")
  /\ Len(Field(arg.transformConfig, "aggregations")) = 1
  /\ Has(arg.transformConfig, "groupBy")
  /\ Field(arg.transformConfig, "groupBy") = "cat"
  /\ ~Has(arg.transformConfig, "pagination")
  /\ Len(out.body.data) = 1
  /\ out.body.data[1].count = 1
  /\ DOMAIN out.body.data[1].items[1] = {"value_sum"}

(***************************************************************************)
(* Dashboards and widgets of several users.                                *)
(***************************************************************************)
Users == {"user_1", "user_2"}
BearerOf(user) ==
  Str("Bearer " \o (CHOOSE t \in DOMAIN UserOfToken : UserOfToken[t] = user))

\* The collections of the scope, and the ids the clock can give their
\* entities.
ScopedPaths == [dashboards |-> "/dashboards", widgets |-> "/widgets"]
ScopedPrefix == [dashboards |-> "dash_", widgets |-> "widget_"]
Nows == {0, 1}

\* An update whose body names another id and the other user.
Takeover(user) ==
  [name |-> "Renamed", title |-> "Renamed", id |-> "other",
   userId |-> CHOOSE other \in Users : other # user]

UserRequests ==
  UNION {
    {Request("POST", ScopedPaths[c], BearerOf(u), << >>, CreateBodies[c]),
     Request("GET", ScopedPaths[c], BearerOf(u), << >>, Null)}
      \cup UNION {
        {Request("GET", ScopedPaths[c] \o "/" \o ScopedPrefix[c] \o DateNow(n), BearerOf(u),
                 << >>, Null),
         Request("PUT", ScopedPaths[c] \o "/" \o ScopedPrefix[c] \o DateNow(n), BearerOf(u),
                 << >>, Takeover(u)),
         Request("DELETE", ScopedPaths[c] \o "/" \o ScopedPrefix[c] \o DateNow(n), BearerOf(u),
                 << >>, Null)} : n \in Nows}
    : c \in DOMAIN ScopedPaths, u \in Users}

\* A user's request is served at some millisecond.
HandleUserRequest ==
  /\ op = "idle"
  /\ UNCHANGED <<inflight, cache, ui>>
  /\ \E request \in UserRequests, now \in Nows :
       LET served == ServeApi(storage, database, request, [now |-> now, dbUp |-> TRUE])
       IN  /\ StoredCount(served.storage, served.database) <= MaxStored
           /\ op' = "serveUser"
           /\ arg' = [request |-> request, now |-> now]
           /\ out' = served.response
           /\ storage' = served.storage
           /\ database' = served.database

NextScope ==
  \/ HandleUserRequest
  \/ Respond

\* The dashboard API used by two users.
ScopeSpec == Init /\ [][NextScope]_vars

\* The user a request is made by.
RequestUser(request) == verifyToken(TokenOf(request))

\* The entities a response returns: those of the list, or the one.
ReturnedEntities(request, response) ==
  IF "data" \notin DOMAIN response.body THEN {}
  ELSE IF request.method = "GET" /\ PathPart(request.path, 2) = ""
  THEN {response.body.data[i] : i \in 1..Len(response.body.data)}
  ELSE {response.body.data}

\* The entities of a map that are not of the user.
OthersIn(map, user) == {i \in 1..Len(map) : map[i][2].userId # user}

\* Every entity of another user is in the map after the step as it was
\* before, under the same id.
OthersKept(before, after, user) ==
  \A i \in OthersIn(before, user) :
    Has(after, before[i][1]) /\ Field(after, before[i][1]) = before[i][2]

\* The entities that stay stored keep their id and their userId.
IdentityKept(before, after) ==
  /\ \A i \in 1..Len(after) : after[i][2].id = after[i][1]
  /\ \A i \in 1..Len(before) :
       Has(after, before[i][1])
         => Field(after, before[i][1]).userId = before[i][2].userId

\* C24: a request by user U never returns, changes or deletes a dashboard or
\* a widget created by another user, and every stored entity keeps the id and
\* the userId it was created with, also when an update names others.
C24_UsersAreIsolated ==
  [][op' = "serveUser"
       => /\ \A entity \in ReturnedEntities(arg'.request, out') : entity.userId = RequestUser(arg'.request)
          /\ OthersKept(storage.dashboards, storage'.dashboards, RequestUser(arg'.request))
          /\ OthersKept(storage.widgets, storage'.widgets, RequestUser(arg'.request))
          /\ IdentityKept(storage.dashboards, storage'.dashboards)
          /\ IdentityKept(storage.widgets, storage'.widgets)]_vars
\* This much the code does: a get, a list, an update or a delete by user U
\* leaves the entities of the others as they are and returns none of them,
\* and an update keeps the id and the userId.
C24_UsersAreIsolatedButForCreate ==
  [][(op' = "serveUser" /\ arg'.request.method # "POST")
       => /\ \A entity \in ReturnedEntities(arg'.request, out') : entity.userId = RequestUser(arg'.request)
          /\ OthersKept(storage.dashboards, storage'.dashboards, RequestUser(arg'.request))
          /\ OthersKept(storage.widgets, storage'.widgets, RequestUser(arg'.request))
          /\ IdentityKept(storage.dashboards, storage'.dashboards)
          /\ IdentityKept(storage.widgets, storage'.widgets)]_vars

(***************************************************************************)
(* Creates and the ids they store under.                                   *)
(***************************************************************************)
\* The map of the storage a path of the three collections is about.
CreatedIn(path) ==
  IF StartsWith(path, "/dashboards") THEN "dashboards"
  ELSE IF StartsWith(path, "/widgets") THEN "widgets"
  ELSE "templates"
IsCreate(request, response) ==
  /\ request.method = "POST"
  /\ response.status = 201
  /\ \E prefix \in {"/dashboards", "/widgets", "/templates"} : StartsWith(request.path, prefix)
IsDashboardDelete(request, response) ==
  request.method = "DELETE" /\ response.status = 200 /\ StartsWith(request.path, "/dashboards")

\* C25: every successful createDashboard, createWidget or createTemplate
\* stores the new entity under an id no other stored entity has, so that it
\* overwrites none, also when two creates fall into the same millisecond; and
\* the stored dashboards are as many as the successful creates less the
\* successful deletes (a create adds one, a delete takes one, nothing else
\* changes their number).
C25_CreateNeverOverwrites ==
  [][op' = "serveApi"
       => /\ IsCreate(arg', out'.response)
               => /\ ~Has(storage[CreatedIn(arg'.path)], out'.response.body.data.id)
                  /\ Len(storage'[CreatedIn(arg'.path)])
                       = Len(storage[CreatedIn(arg'.path)]) + 1
          /\ Len(storage'.dashboards) =
               Len(storage.dashboards)
                 + (IF IsCreate(arg', out'.response) /\ CreatedIn(arg'.path) = "dashboards"
                    THEN 1 ELSE 0)
                 - (IF IsDashboardDelete(arg', out'.response) THEN 1 ELSE 0)]_vars
\* This much the code does: a create whose id is not stored yet adds one
\* entity, a delete takes one dashboard, and no other request changes the
\* number of dashboards.
C25_CreateUnderFreshIdAddsOne ==
  [][op' = "serveApi"
       => /\ (IsCreate(arg', out'.response)
                /\ ~Has(storage[CreatedIn(arg'.path)], out'.response.body.data.id))
               => Len(storage'[CreatedIn(arg'.path)])
                    = Len(storage[CreatedIn(arg'.path)]) + 1
          /\ ~IsCreate(arg', out'.response)
               => Len(storage'.dashboards) =
                    Len(storage.dashboards)
                      - (IF IsDashboardDelete(arg', out'.response) THEN 1 ELSE 0)]_vars

(***************************************************************************)
(* A data source after its creation.                                       *)
(***************************************************************************)
\* The request is a GET, PUT or DELETE, by a user whose token decodes, on the
\* id of a data source that user has created and that is still there.
OnCreatedSource(request, tables) ==
  /\ request.method \in {"GET", "PUT", "DELETE"}
  /\ IsAuthorized(request)
  /\ TokenDecodes(TokenOf(request))
  /\ StartsWith(request.path, "/data-sources/")
  /\ \E i \in 1..Len(tables.data_sources) :
       /\ tables.data_sources[i].id = PathPart(request.path, 2)
       /\ tables.data_sources[i].user_id = verifyToken(TokenOf(request))

\* C26: after POST /data-sources has succeeded for a user and returned id D,
\* a later GET, PUT or DELETE on /data-sources/D by that user finds the data
\* source (is not answered 404) until it is deleted.
C26_CreatedSourceIsFound ==
  [][(op' = "serveApi" /\ OnCreatedSource(arg', database))
       => out'.response.status # 404]_vars

(***************************************************************************)
(* importData a query at a time.  The handler awaits each of its queries,  *)
(* and other imports run in between: the SELECT that checks the data       *)
(* source, the DELETE of the stored rows, and the INSERTs, which are all   *)
(* sent at once and answered in any order; an INSERT the database cannot   *)
(* be reached for is lost.  inflight holds the imports under way.          *)
(***************************************************************************)
ImportUser == "user_1"
ImportSource == StoredIds.sources

\* The row arrays imported: no one is the beginning of another.
ImportPool ==
  {<<Row(Str("a"), Num(1)), Row(Str("b"), Num(2))>>,
   <<Row(Str("c"), Num(3)), Row(Str("d"), Num(4))>>}

Importing(pc, data, now, pending, failed) ==
  [pc |-> pc, data |-> data, now |-> now, pending |-> pending, failed |-> failed]

\* POST /data-sources: the data source the imports are for.
CreateSource ==
  /\ inflight = << >>
  /\ database.data_sources = << >>
  /\ database' = createDataSource(storage, database, CreateBodies.sources, ImportUser,
                                  [now |-> 0, dbUp |-> TRUE]).database
  /\ UNCHANGED <<op, arg, out, storage, inflight, cache, ui>>

\* POST /data/import: the SELECT has found the data source.
BeginImport ==
  /\ Len(inflight) < MaxRequests
  /\ OwnSources(database, ImportSource, ImportUser) # << >>
  /\ \E data \in ImportPool :
       inflight' = Append(inflight, Importing("delete", data, 0, {}, FALSE))
  /\ UNCHANGED <<op, arg, out, storage, database, cache, ui>>

\* The DELETE is done, and the INSERTs are sent, their ids made of the
\* millisecond and the index.
DeleteStored ==
  /\ \E s \in 1..Len(inflight), now \in Nows :
       /\ inflight[s].pc = "delete"
       /\ database' = Cleared(database, ImportSource, ImportUser)
       /\ inflight' =
            [inflight EXCEPT ![s] =
               Importing("insert", @.data, now, 0..(Len(@.data) - 1), FALSE)]
  /\ UNCHANGED <<op, arg, out, storage, cache, ui>>

\* The DELETE cannot be sent: the handler answers 500.
DeleteFails ==
  /\ \E s \in 1..Len(inflight) :
       /\ inflight[s].pc = "delete"
       /\ inflight' = SubSeq(inflight, 1, s - 1) \o SubSeq(inflight, s + 1, Len(inflight))
  /\ UNCHANGED <<op, arg, out, storage, database, cache, ui>>

\* One of the INSERTs is done.
InsertRow ==
  /\ \E s \in 1..Len(inflight) :
       /\ inflight[s].pc = "insert"
       /\ \E index \in inflight[s].pending :
            /\ database' =
                 [database EXCEPT !.data_source_data =
                    Inserted(@, ImportedRow(ImportSource, ImportUser, inflight[s].now,
                                            inflight[s].data, index))]
            /\ inflight' = [inflight EXCEPT ![s].pending = @ \ {index}]
  /\ UNCHANGED <<op, arg, out, storage, cache, ui>>

\* One of the INSERTs cannot be sent: Promise.all rejects.
InsertFails ==
  /\ \E s \in 1..Len(inflight) :
       /\ inflight[s].pc = "insert"
       /\ \E index \in inflight[s].pending :
            inflight' = [inflight EXCEPT ![s].pending = @ \ {index}, ![s].failed = TRUE]
  /\ UNCHANGED <<op, arg, out, storage, database, cache, ui>>

\* Every INSERT is answered: the handler answers 200, or 500 when one failed.
EndImport ==
  /\ \E s \in 1..Len(inflight) :
       /\ inflight[s].pc = "insert"
       /\ inflight[s].pending = {}
       /\ inflight' = SubSeq(inflight, 1, s - 1) \o SubSeq(inflight, s + 1, Len(inflight))
  /\ UNCHANGED <<op, arg, out, storage, database, cache, ui>>

NextImport ==
  \/ CreateSource
  \/ BeginImport
  \/ DeleteStored
  \/ DeleteFails
  \/ InsertRow
  \/ InsertFails
  \/ EndImport

\* Imports into one data source.
ImportSpec == Init /\ [][NextImport]_vars

\* The rows stored for the data source, by row_index, and their indexes.
ImportedRows == StoredRows(database, ImportSource, ImportUser)
ImportedIndexes ==
  LET rows == Ordered(OwnRows(database, ImportSource, ImportUser), ByRowIndex)
  IN  [i \in 1..Len(rows) |-> rows[i].row_index]

\* C27: importData replaces the rows of a data source as a whole: once the
\* imports are over, two concurrent ones and one whose insert failed midway
\* included, the stored rows are exactly the rows of one complete import
\* (row indexes 0..n-1, each once), or the rows stored before the failed
\* import, which are such rows themselves or none.
C27_ImportReplacesAsAWhole ==
  inflight = << >>
    => \/ ImportedRows = << >>
       \/ /\ ImportedRows \in ImportPool
          /\ ImportedIndexes = [i \in 1..Len(ImportedRows) |-> i - 1]

(***************************************************************************)
(* The dashboard editor.  Its state is ui.editor; a handler is the state   *)
(* its setState updaters leave, and an action is one event of the page     *)
(* with every handler the event reaches.  The browser's clock reads like   *)
(* the server's.                                                           *)
(***************************************************************************)
MaxWidgets == 2
\* The last column of the grid a widget is moved or copied to.
MaxColumn == 1

\* The first of WidgetPalette's widgetTypes, with the first key of its
\* defaultConfig.
PaletteItems ==
  {[type |-> "chart", name |-> "Chart", defaultConfig |-> <<<<"chartType", "line">>>>,
    defaultSize |-> [w |-> 6, h |-> 4]]}

\* `temp-${Date.now()}`
TempId(now) == "temp-" \o DateNow(now)

\* WidgetPalette's handleWidgetAdd builds the widget it hands to onWidgetAdd.
PaletteWidget(item, dashboard, now) ==
  [id |-> TempId(now), dashboardId |-> dashboard.id, userId |-> "",
   type |-> item.type, title |-> "New " \o item.name, config |-> item.defaultConfig,
   positionX |-> 0, positionY |-> 0,
   width |-> item.defaultSize.w, height |-> item.defaultSize.h,
   createdAt |-> NowISOString(now), updatedAt |-> NowISOString(now)]

\* The first position from (x, y) on, row by row, that no widget has.
RECURSIVE NextFree(_, _, _, _)
NextFree(x, y, widgets, cols) ==
  IF \E i \in 1..Len(widgets) : widgets[i].positionX = x /\ widgets[i].positionY = y
  THEN IF x + 1 >= cols THEN NextFree(0, y + 1, widgets, cols)
       ELSE NextFree(x + 1, y, widgets, cols)
  ELSE [x |-> x, y |-> y]

\* DashboardCanvas's drop of a palette item at grid cell (x, y).
DroppedWidget(item, dashboard, widgets, x, y, now) ==
  [id |-> TempId(now), dashboardId |-> dashboard.id, userId |-> "",
   type |-> item.type, title |-> "New " \o item.name, config |-> item.defaultConfig,
   positionX |-> NextFree(x, y, widgets, Field(dashboard.layoutConfig, "cols")).x,
   positionY |-> NextFree(x, y, widgets, Field(dashboard.layoutConfig, "cols")).y,
   width |-> Min(item.defaultSize.w,
                 Field(dashboard.layoutConfig, "cols")
                   - NextFree(x, y, widgets, Field(dashboard.layoutConfig, "cols")).x),
   height |-> item.defaultSize.h,
   createdAt |-> NowISOString(now), updatedAt |-> NowISOString(now)]

\* WidgetRenderer's handleDuplicate builds the copy it hands to onUpdate.
DuplicatedWidget(widget, now) ==
  [widget EXCEPT !.id = TempId(now), !.title = widget.title \o " (Copy)",
                 !.positionX = widget.positionX + 1, !.positionY = widget.positionY + 1,
                 !.createdAt = NowISOString(now), !.updatedAt = NowISOString(now)]

\* prev.selectedWidget?.id, '' standing for undefined
SelectedId(editor) ==
  IF editor.selectedWidget = Null THEN "" ELSE editor.selectedWidget.id

HasWidget(widgets, id) == \E i \in 1..Len(widgets) : widgets[i].id = id

handleWidgetSelect(editor, widget) ==
  [editor EXCEPT !.selectedWidget = widget, !.showPropertyPanel = (widget # Null)]

handleWidgetUpdate(editor, updatedWidget) ==
  IF HasWidget(editor.widgets, updatedWidget.id)
  THEN [editor EXCEPT
          !.widgets = [i \in 1..Len(editor.widgets) |->
                         IF editor.widgets[i].id = updatedWidget.id THEN updatedWidget
                         ELSE editor.widgets[i]],
          !.selectedWidget = updatedWidget,
          !.hasUnsavedChanges = TRUE]
  ELSE [editor EXCEPT
          !.widgets = Append(editor.widgets, updatedWidget),
          !.selectedWidget = updatedWidget,
          !.hasUnsavedChanges = TRUE]

handleWidgetAdd(editor, widget) ==
  [editor EXCEPT !.widgets = Append(editor.widgets, widget), !.hasUnsavedChanges = TRUE]

handleWidgetDelete(editor, widgetId) ==
  [editor EXCEPT
     !.widgets = SelectSeq(editor.widgets, LAMBDA w : w.id # widgetId),
     !.selectedWidget = IF SelectedId(editor) = widgetId THEN Null ELSE editor.selectedWidget,
     !.showPropertyPanel =
        IF SelectedId(editor) = widgetId THEN FALSE ELSE editor.showPropertyPanel,
     !.hasUnsavedChanges = TRUE]

\* The property panel's onClose.
onClose(editor) == [editor EXCEPT !.showPropertyPanel = FALSE, !.selectedWidget = Null]

handlePreview(editor) == [editor EXCEPT !.previewMode = ~editor.previewMode]

\* The editor's handleLayoutChange: the layouts go into the dashboard.
handleLayoutChange(editor, layouts) ==
  IF editor.currentDashboard = Null THEN editor
  ELSE [editor EXCEPT
          !.currentDashboard.layoutConfig =
             MapSet(editor.currentDashboard.layoutConfig, "layouts", layouts),
          !.hasUnsavedChanges = TRUE]

\* The dashboard the dashboards page creates, with its grid.
EditorDashboardBody ==
  [name |-> "Sales", layoutConfig |-> <<<<"cols", 12>>, <<"rowHeight", 60>>>>]

\* The id in the editor's route.
RouteIds == {"dash_" \o DateNow(now) : now \in Nows}

\* response.data, Null when the answer has none.
DataOf(response) == IF "data" \in DOMAIN response.body THEN response.body.data ELSE Null

\* const { id, ...widgetData } = widget; { ...widgetData, dashboardId }
WidgetData(widget, dashboardId) ==
  [key \in DOMAIN widget \ {"id"} |->
     IF key = "dashboardId" THEN dashboardId ELSE widget[key]]

\* The request handleSave makes for a widget.
SaveRequest(editor, widget) ==
  IF StartsWith(widget.id, "temp-")
  THEN Request("POST", "/widgets", Bearer, << >>,
               WidgetData(widget, editor.currentDashboard.id))
  ELSE Request("PUT", "/widgets/" \o widget.id, Bearer, << >>, widget)

\* handleSave's requests in order: the dashboard, then each widget of the
\* state the handler was called in.
SaveRequests(editor) ==
  <<Request("PUT", "/dashboards/" \o editor.currentDashboard.id, Bearer, << >>,
            editor.currentDashboard)>>
    \o [i \in 1..Len(editor.widgets) |-> SaveRequest(editor, editor.widgets[i])]

\* The server after the first n of the requests, the k-th of them served at
\* now + (k - 1) * step.
RECURSIVE ServedAll(_, _, _, _, _, _)
ServedAll(store, tables, requests, n, now, step) ==
  IF n = 0 THEN ApiResult(Null, store, tables, << >>)
  ELSE LET before == ServedAll(store, tables, requests, n - 1, now, step)
       IN  ServeApi(before.storage, before.database, requests[n],
                    [now |-> now + (n - 1) * step, dbUp |-> TRUE])

EditorReady == ~ui.editor.loading /\ ui.editor.currentDashboard # Null
Editing == EditorReady /\ ~ui.editor.previewMode

\* An event of the page that sends nothing, and the state it leaves.
EditorEvent(name, input, editor) ==
  /\ op' = name
  /\ arg' = input
  /\ out' = out
  /\ ui' = [ui EXCEPT !.editor = editor]

\* The dashboards page creates the dashboard.
AddDashboard ==
  /\ storage.dashboards = << >>
  /\ \E now \in Nows :
       LET served == ServeApi(storage, database,
                              Request("POST", "/dashboards", Bearer, << >>, EditorDashboardBody),
                              [now |-> now, dbUp |-> TRUE])
       IN  /\ storage' = served.storage
           /\ database' = served.database
  /\ UNCHANGED <<op, arg, out, inflight, cache, ui>>

\* loadDashboard, on mount.
OpenEditor ==
  /\ ui.editor.loading
  /\ \E id \in RouteIds, now \in Nows :
       LET world == [now |-> now, dbUp |-> TRUE]
           dashboard ==
             DataOf(ServeApi(storage, database,
                             Request("GET", "/dashboards/" \o id, Bearer, << >>, Null),
                             world).response)
           widgets ==
             DataOf(ServeApi(storage, database,
                             Request("GET", "/widgets", Bearer, [dashboardId |-> id], Null),
                             world).response)
       IN  EditorEvent("loadDashboard", id,
             IF dashboard = Null THEN [ui.editor EXCEPT !.loading = FALSE]
             ELSE [ui.editor EXCEPT !.currentDashboard = dashboard, !.widgets = widgets,
                                    !.loading = FALSE])
  /\ UNCHANGED <<storage, database, inflight, cache>>

PaletteAdd ==
  /\ Editing /\ ui.editor.showWidgetPalette
  /\ Len(ui.editor.widgets) < MaxWidgets
  /\ \E item \in PaletteItems, now \in Nows :
       EditorEvent("handleWidgetAdd", << >>,
         handleWidgetAdd(ui.editor, PaletteWidget(item, ui.editor.currentDashboard, now)))
  /\ UNCHANGED <<storage, database, inflight, cache>>

CanvasDrop ==
  /\ Editing /\ ui.editor.showWidgetPalette
  /\ Len(ui.editor.widgets) < MaxWidgets
  /\ \E item \in PaletteItems, now \in Nows :
       EditorEvent("drop", << >>,
         handleWidgetUpdate(ui.editor,
           DroppedWidget(item, ui.editor.currentDashboard, ui.editor.widgets, 0, 0, now)))
  /\ UNCHANGED <<storage, database, inflight, cache>>

\* A click on a widget of the canvas; the handler stops the event there.
WidgetClick ==
  /\ Editing
  /\ \E i \in 1..Len(ui.editor.widgets) :
       EditorEvent("handleWidgetClick", << >>,
         handleWidgetSelect(ui.editor, ui.editor.widgets[i]))
  /\ UNCHANGED <<storage, database, inflight, cache>>

CanvasClick ==
  /\ Editing
  /\ EditorEvent("handleCanvasClick", << >>, handleWidgetSelect(ui.editor, Null))
  /\ UNCHANGED <<storage, database, inflight, cache>>

\* The layout the grid reports: an item for each widget.
LayoutOf(widgets) ==
  [i \in 1..Len(widgets) |->
     [i |-> widgets[i].id, x |-> widgets[i].positionX, y |-> widgets[i].positionY,
      w |-> widgets[i].width, h |-> widgets[i].height]]

\* DashboardCanvas's handleLayoutChange after a widget was dragged to
\* the next column: onWidgetUpdate for the widget, then onLayoutChange.
MoveWidget ==
  /\ Editing
  /\ \E i \in 1..Len(ui.editor.widgets), x \in 1..MaxColumn, now \in {1} :
       /\ ui.editor.widgets[i].positionX + 1 = x
       /\ EditorEvent("handleLayoutChange", << >>,
            handleLayoutChange(
              handleWidgetUpdate(ui.editor,
                [ui.editor.widgets[i] EXCEPT !.positionX = x,
                                             !.updatedAt = NowISOString(now)]),
              LayoutOf(handleWidgetUpdate(ui.editor,
                [ui.editor.widgets[i] EXCEPT !.positionX = x,
                                             !.updatedAt = NowISOString(now)]).widgets)))
  /\ UNCHANGED <<storage, database, inflight, cache>>

PanelShown ==
  Editing /\ ui.editor.showPropertyPanel /\ ui.editor.selectedWidget # Null

\* PropertyPanel's handleUpdate of the title of the widget it shows.
PanelUpdate ==
  /\ PanelShown
  /\ \E now \in {1} :
       EditorEvent("handleUpdate", << >>,
         handleWidgetUpdate(ui.editor,
           [ui.editor.selectedWidget EXCEPT !.title = "Renamed",
                                            !.updatedAt = NowISOString(now)]))
  /\ UNCHANGED <<storage, database, inflight, cache>>

PanelClose ==
  /\ PanelShown
  /\ EditorEvent("onClose", << >>, onClose(ui.editor))
  /\ UNCHANGED <<storage, database, inflight, cache>>

\* A click on an item of a widget's menu runs the item's handler and then,
\* the item not stopping the event as the menu's trigger does, the onClick
\* of the widget's container in the canvas, handleWidgetClick, with the
\* widget of the render the click happened in.
MenuDuplicate ==
  /\ Editing
  /\ Len(ui.editor.widgets) < MaxWidgets
  /\ \E i \in 1..Len(ui.editor.widgets), now \in Nows :
       /\ ui.editor.widgets[i].positionX < MaxColumn
       /\ EditorEvent("handleDuplicate", << >>,
         handleWidgetSelect(
           handleWidgetUpdate(ui.editor, DuplicatedWidget(ui.editor.widgets[i], now)),
           ui.editor.widgets[i]))
  /\ UNCHANGED <<storage, database, inflight, cache>>

MenuDelete ==
  /\ Editing
  /\ \E i \in 1..Len(ui.editor.widgets) :
       EditorEvent("handleDelete", << >>,
         handleWidgetSelect(
           handleWidgetDelete(ui.editor, ui.editor.widgets[i].id),
           ui.editor.widgets[i]))
  /\ UNCHANGED <<storage, database, inflight, cache>>

TogglePreview ==
  /\ EditorReady
  /\ EditorEvent("handlePreview", << >>, handlePreview(ui.editor))
  /\ UNCHANGED <<storage, database, inflight, cache>>

NextEditor ==
  \/ AddDashboard
  \/ OpenEditor
  \/ PaletteAdd
  \/ CanvasDrop
  \/ WidgetClick
  \/ CanvasClick
  \/ MoveWidget
  \/ PanelUpdate
  \/ PanelClose
  \/ MenuDuplicate
  \/ MenuDelete
  \/ TogglePreview

\* The dashboard editor of one user, loaded from the dashboard API.
EditorSpec == Init /\ [][NextEditor]_vars

\* C28: in the dashboard editor, after any sequence of widget select, add,
\* update, delete and property-panel close actions, showPropertyPanel is true
\* only when selectedWidget is not null, and a non-null selectedWidget has
\* the id of a widget in the widgets list.
C28_SelectionIsAListedWidget ==
  /\ ui.editor.showPropertyPanel => ui.editor.selectedWidget # Null
  /\ ui.editor.selectedWidget # Null
       => HasWidget(ui.editor.widgets, ui.editor.selectedWidget.id)

\* The first half of C28 alone: the panel is open only on a selection.
C28_PanelOnlyOnSelection ==
  ui.editor.showPropertyPanel => ui.editor.selectedWidget # Null

\* C28 from event to event, but for the clicks on a widget's menu.
C28_HandlersKeepSelectionListed ==
  [][(C28_SelectionIsAListedWidget /\ op' \notin {"handleDelete", "handleDuplicate"})
       => C28_SelectionIsAListedWidget']_vars

(***************************************************************************)
(* Saving in the dashboard editor.  out keeps what the last handleSave     *)
(* that succeeded did: its requests and the ids of the widgets it called   *)
(* createWidget for.                                                       *)
(***************************************************************************)
\* The ids of the widgets handleSave calls createWidget for.
CreatedBySave(editor) ==
  {editor.widgets[i].id : i \in {k \in 1..Len(editor.widgets) :
                                   SaveRequest(editor, editor.widgets[k]).method = "POST"}}

\* handleSave, the Save button being enabled; every request is answered, or
\* the network is down and the first fetch rejects.  The responses are
\* dropped and the state keeps the widgets it had.
Save ==
  /\ EditorReady /\ ui.editor.hasUnsavedChanges /\ ~ui.editor.saving
  /\ \E now \in Nows, step \in {0, 1}, online \in BOOLEAN :
       LET requests == SaveRequests(ui.editor)
           served == ServedAll(storage, database, requests, Len(requests), now, step)
       IN  IF online
           THEN /\ StoredCount(served.storage, served.database) <= MaxStored + 1
                /\ storage' = served.storage
                /\ database' = served.database
                /\ op' = "handleSave"
                /\ arg' = [saved |-> TRUE]
                /\ out' = [requests |-> requests, created |-> CreatedBySave(ui.editor)]
                /\ ui' = [ui EXCEPT !.editor.hasUnsavedChanges = FALSE]
           ELSE /\ op' = "handleSave"
                /\ arg' = [saved |-> FALSE]
                /\ UNCHANGED <<storage, database, out, ui>>
  /\ UNCHANGED <<inflight, cache>>

\* The browser loads the page again: the component starts over.
ReloadPage ==
  /\ ~ui.editor.loading
  /\ EditorEvent("reload", << >>, InitialEditor)
  /\ UNCHANGED <<storage, database, inflight, cache>>

NextSave ==
  \/ AddDashboard
  \/ OpenEditor
  \/ ReloadPage
  \/ PaletteAdd
  \/ MoveWidget
  \/ Save

\* Editing and saving a dashboard against the dashboard API.
SaveSpec == Init /\ [][NextSave]_vars

Saved == op = "handleSave" /\ arg.saved

\* C29: saving creates each new widget (temporary id starting with 'temp-')
\* on the server at most once: after a handleSave that succeeded, a later
\* handleSave issues updateWidget for that widget, never createWidget again.
C29_SavedWidgetIsNotCreatedAgain ==
  [][("created" \in DOMAIN out /\ Saved')
       => \A i \in 1..Len(ui.editor.widgets) :
            ui.editor.widgets[i].id \in out.created
              => ui.editor.widgets[i].id \notin out'.created]_vars

\* C29, its consequence: after a save that succeeded the server holds
\* exactly one widget for each widget of the editor.
C29_OneServerWidgetPerEditorWidget ==
  Saved => Len(storage.widgets) = Len(ui.editor.widgets)

(***************************************************************************)
(* The data source viewer.  Its state is ui.viewer; the table shows        *)
(* filteredData, and the buttons of a row are given the row's position in  *)
(* what is shown.                                                          *)
(***************************************************************************)
\* The columns the imports of the viewer's data source declare.
ViewerSchema ==
  <<<<"columns", <<[name |-> "cat", type |-> "string"],
                   [name |-> "value", type |-> "number"]>>>>>>

\* What the user types in the search box and in a cell.
SearchQueries == {"", "b", "A"}
CellValues == {Str("z")}

\* Object.values(row).some(value => String(value).toLowerCase()
\*   .includes(searchQuery.toLowerCase()))
RowMatches(row, searchQuery) ==
  searchQuery = ""
    \/ \E key \in DOMAIN row :
         Includes(ToLowerCase(StringOf(row[key])), ToLowerCase(searchQuery))

\* The indexes in data, from 0, of the rows of filteredData, in order.
RECURSIVE ShownIndexes(_, _)
ShownIndexes(data, searchQuery) ==
  IF data = << >> THEN << >>
  ELSE ShownIndexes(SubSeq(data, 1, Len(data) - 1), searchQuery)
         \o (IF RowMatches(data[Len(data)], searchQuery) THEN <<Len(data) - 1>> ELSE << >>)

filteredData(viewer) ==
  SelectSeq(viewer.data, LAMBDA row : RowMatches(row, viewer.searchQuery))

\* schema?.columns || []
ColumnNames(viewer) ==
  IF viewer.schema = Null THEN {}
  ELSE {Field(viewer.schema, "columns")[i].name :
          i \in 1..Len(Field(viewer.schema, "columns"))}

\* setEditingRow(index); setEditingData({ ...data[index] })
handleEditRow(viewer, index) ==
  [viewer EXCEPT !.editingRow = Num(index),
                 !.editingData = IF index < Len(viewer.data) THEN viewer.data[index + 1]
                                 ELSE << >>]

handleCellChange(viewer, column, value) ==
  [viewer EXCEPT !.editingData = (column :> value) @@ viewer.editingData]

handleCancelEdit(viewer) == [viewer EXCEPT !.editingRow = Null, !.editingData = << >>]

\* handleSaveRow, once updateDataSourceRow has been answered: newData
\* [editingRow] = editingData.
RowSaved(viewer) ==
  [viewer EXCEPT
     !.data = [i \in 1..Max(Len(viewer.data), viewer.editingRow.n + 1) |->
                 IF i = viewer.editingRow.n + 1 THEN viewer.editingData
                 ELSE viewer.data[i]],
     !.editingRow = Null,
     !.editingData = << >>]

\* The request of dataAPI.updateDataSourceRow.
UpdateRowRequest(viewer) ==
  Request("PUT", "/data/update/" \o ImportSource, Bearer, << >>,
          [rowIndex |-> viewer.editingRow.n, rowData |-> viewer.editingData])

ViewerEvent(name, input, viewer) ==
  /\ op' = name
  /\ arg' = input
  /\ out' = out
  /\ ui' = [ui EXCEPT !.viewer = viewer]

\* The upload dialog imports rows, with their schema, into the data source.
ImportRows ==
  /\ OwnSources(database, ImportSource, ImportUser) # << >>
  /\ OwnRows(database, ImportSource, ImportUser) = << >>
  /\ \E data \in ImportPool :
       database' = ServeApi(storage, database,
                            Request("POST", "/data/import", Bearer, << >>,
                                    [dataSourceId |-> ImportSource, data |-> data,
                                     schema |-> ViewerSchema]),
                            [now |-> 0, dbUp |-> TRUE]).database
  /\ UNCHANGED <<op, arg, out, storage, inflight, cache, ui>>

\* loadData, on mount.
OpenViewer ==
  /\ ui.viewer.loading
  /\ OwnSources(database, ImportSource, ImportUser) # << >>
  /\ LET response ==
           ServeApi(storage, database,
                    Request("GET", "/data/fetch/" \o ImportSource, Bearer, << >>, Null),
                    [now |-> 1, dbUp |-> TRUE]).response
     IN  ViewerEvent("loadData", << >>,
           [ui.viewer EXCEPT !.data = DataOf(response).rows,
                             !.schema = DataOf(response).schema,
                             !.loading = FALSE])
  /\ UNCHANGED <<storage, database, inflight, cache>>

TypeSearch ==
  /\ ~ui.viewer.loading
  /\ \E searchQuery \in SearchQueries :
       /\ searchQuery # ui.viewer.searchQuery
       /\ ViewerEvent("setSearchQuery", << >>, [ui.viewer EXCEPT !.searchQuery = searchQuery])
  /\ UNCHANGED <<storage, database, inflight, cache>>

\* The edit button of the row shown at a position of the table.
EditRow ==
  /\ ~ui.viewer.loading
  /\ \E index \in 0..(Len(filteredData(ui.viewer)) - 1) :
       /\ ui.viewer.editingRow # Num(index)
       /\ ViewerEvent("handleEditRow", [index |-> index], handleEditRow(ui.viewer, index))
  /\ UNCHANGED <<storage, database, inflight, cache>>

\* The row being edited is among the rows shown: its inputs and its save and
\* cancel buttons are on the page.
EditingShown ==
  /\ ~ui.viewer.loading
  /\ ui.viewer.editingRow # Null
  /\ ui.viewer.editingRow.n < Len(filteredData(ui.viewer))

CellChange ==
  /\ EditingShown
  /\ \E column \in ColumnNames(ui.viewer), value \in CellValues :
       ViewerEvent("handleCellChange", << >>, handleCellChange(ui.viewer, column, value))
  /\ UNCHANGED <<storage, database, inflight, cache>>

CancelEdit ==
  /\ EditingShown
  /\ ViewerEvent("handleCancelEdit", << >>, handleCancelEdit(ui.viewer))
  /\ UNCHANGED <<storage, database, inflight, cache>>

\* handleSaveRow: the request is answered, or the network is down and the
\* fetch rejects.
SaveRow ==
  /\ EditingShown
  /\ \E now \in Nows, online \in BOOLEAN :
       IF online
       THEN /\ database' = ServeApi(storage, database, UpdateRowRequest(ui.viewer),
                                    [now |-> now, dbUp |-> TRUE]).database
            /\ ViewerEvent("handleSaveRow",
                           [index |-> ui.viewer.editingRow.n, saved |-> TRUE],
                           RowSaved(ui.viewer))
       ELSE /\ database' = database
            /\ ViewerEvent("handleSaveRow",
                           [index |-> ui.viewer.editingRow.n, saved |-> FALSE], ui.viewer)
  /\ UNCHANGED <<storage, inflight, cache>>

NextViewer ==
  \/ CreateSource
  \/ ImportRows
  \/ OpenViewer
  \/ TypeSearch
  \/ EditRow
  \/ CellChange
  \/ CancelEdit
  \/ SaveRow

\* The data source viewer of one user against the dashboard API.
ViewerSpec == Init /\ [][NextViewer]_vars

\* The row of data shown at a position of the table, and its index in data.
ClickedIndex(viewer, position) ==
  ShownIndexes(viewer.data, viewer.searchQuery)[position + 1]
ViewerRows == StoredRows(database, ImportSource, ImportUser)

\* handleEditRow at a position loads the row shown there.
EditLoadsTheClickedRow ==
  op' = "handleEditRow"
    => ui'.viewer.editingData = ui.viewer.data[ClickedIndex(ui.viewer, arg'.index) + 1]

\* handleSaveRow at a position writes the row shown there, in data and in the
\* stored rows, and no other.
SaveWritesTheClickedRow ==
  (op' = "handleSaveRow" /\ arg'.saved)
    => /\ ui'.viewer.data =
            [ui.viewer.data EXCEPT ![ClickedIndex(ui.viewer, arg'.index) + 1] =
                                     ui.viewer.editingData]
       /\ ViewerRows' =
            [ViewerRows EXCEPT ![ClickedIndex(ui.viewer, arg'.index) + 1] =
                                 Stringified(ui.viewer.editingData)]

\* C30: in the data source viewer, for any search query, the row loaded into
\* the editor by handleEditRow and written by handleSaveRow, locally and
\* through updateDataSourceRow's rowIndex, is the row shown at the table
\* position the user clicked, and no other row of the data is changed.
C30_EditAndSaveActOnTheClickedRow ==
  [][EditLoadsTheClickedRow /\ SaveWritesTheClickedRow]_vars

\* C30 while the search box is empty.
C30_HoldsWithoutSearch ==
  [][ui.viewer.searchQuery = "" => (EditLoadsTheClickedRow /\ SaveWritesTheClickedRow)]_vars

\* C30 for the save alone: a row loaded under one search query and saved
\* under another, or loaded from another position, is written elsewhere.
C30_SaveWritesTheClickedRow == [][SaveWritesTheClickedRow]_vars

====
